---- MODULE Spec2Model ----
(***************************************************************************)
(* The in-memory corpus of LibAFL (crates/libafl/src/corpus/inmemory.rs):  *)
(* TestcaseStorageMap, TestcaseStorage and InMemoryCorpus, in both build   *)
(* variants: the default one (a hash map whose items carry prev/next       *)
(* links) and the one built with the feature corpus_btreemap (an ordered   *)
(* map).  The two variants are driven by the same calls, side by side.     *)
(***************************************************************************)
EXTENDS Integers, Sequences, FiniteSets, TLC

\* ------------------------------------------------------------------ bounds

\* add/add_disabled are called at most MaxIds times: ids 0 .. MaxIds-1.
MaxIds == 3

\* The ids a caller passes: every id that can be issued, and MaxIds, which
\* never is (the tests' invalid_id).
Ids == 0 .. MaxIds
\* How many ids the corpus hands out in the runs that also move the cursor.
MaxCursorIds == 2
\* How many ids the storage hands out in the runs that call
\* insert_inner_with_id themselves; the ids passed go one beyond.
MaxWithIds == 2
\* How many ids the corpus hands out in the runs that borrow testcases, and
\* how many shared borrows of one testcase are alive at most.
MaxBorrowIds == 2
MaxBorrows == 2
\* The input payloads handed in: two of the byte patterns of the tests.
Payloads == { << 1, 2, 3 >>, << 2, 3, 4 >> }

\* The largest integer the model counts with; the builds' usize::MAX is no
\* smaller, and the counts of a bounded corpus stay far below both.
UsizeMax == 2147483647

\* ------------------------------------------------------------- Option<T>

None == << >>
Some(x) == << x >>
IsSome(o) == o # << >>
IsNone(o) == o = << >>
Unwrap(o) == o[1]

\* Testcase<I>: the input payload is all the corpus is asked about.
Testcase(p) == [input |-> p]
Testcases == { Testcase(p) : p \in Payloads }

\* ------------------------------------------------- Vec<CorpusId> helpers

\* Vec::insert(idx, x), idx counted from 0.
VecInsert(v, idx, x) == SubSeq(v, 1, idx) \o << x >> \o SubSeq(v, idx + 1, Len(v))
\* Vec::remove(idx), idx counted from 0.
VecRemove(v, idx) == SubSeq(v, 1, idx) \o SubSeq(v, idx + 2, Len(v))

\* slice::binary_search: halve [left, right) until the element is found
\* (Ok(idx)) or the interval is empty (Err(left), the insertion point).
RECURSIVE BinarySearchFrom(_, _, _, _)
BinarySearchFrom(v, x, left, right) ==
    IF left >= right THEN [found |-> FALSE, idx |-> left]
    ELSE LET mid == left + ((right - left) \div 2)
         IN  IF v[mid + 1] = x THEN [found |-> TRUE, idx |-> mid]
             ELSE IF v[mid + 1] < x THEN BinarySearchFrom(v, x, mid + 1, right)
             ELSE BinarySearchFrom(v, x, left, mid)

binary_search(v, x) == BinarySearchFrom(v, x, 0, Len(v))

\* ------------------------------------------- TestcaseStorageMap (linked)

\* TestcaseStorageItem { testcase, prev, next }
TestcaseStorageItem(tc, p, n) == [testcase |-> tc, prev |-> p, next |-> n]

\* TestcaseStorageMap::new
TestcaseStorageMap_new ==
    [map |-> << >>, keys |-> << >>, first_id |-> None, last_id |-> None]

\* insert_key that pushes the id at the end of keys.
insert_key_pushed(keys, id) ==
    LET r == binary_search(keys, id)
    IN  IF r.found THEN keys ELSE Append(keys, id)

\* insert_key that inserts at the place the search gives, found or not.
insert_key_duplicating(keys, id) == VecInsert(keys, binary_search(keys, id).idx, id)

insert_key(keys, id) ==
    LET r == binary_search(keys, id)
    IN  IF r.found THEN keys ELSE VecInsert(keys, r.idx, id)

remove_key(keys, id) ==
    LET r == binary_search(keys, id)
    IN  IF r.found THEN VecRemove(keys, r.idx) ELSE keys

\* HashMap::insert(k, v): overwrites the entry of k.
MapInsert(m, k, v) == [x \in (DOMAIN m) \cup {k} |-> IF x = k THEN v ELSE m[x]]
\* HashMap::remove(k), the map that is left.
MapRemove(m, k) == [x \in (DOMAIN m) \ {k} |-> m[x]]

\* replace that stores the testcase in a fresh item, its links empty.
StorageMap_replace_unlinked(sm, id, tc) ==
    IF id \in DOMAIN sm.map
    THEN [sm  |-> [sm EXCEPT !.map[id] = TestcaseStorageItem(tc, None, None)],
          ret |-> Some(sm.map[id].testcase)]
    ELSE [sm |-> sm, ret |-> None]

\* TestcaseStorageMap::replace: the map with the testcase of id swapped,
\* and the old testcase; None, and nothing changed, when id is absent.
StorageMap_replace(sm, id, tc) ==
    IF id \in DOMAIN sm.map
    THEN [sm  |-> [sm EXCEPT !.map[id].testcase = tc],
          ret |-> Some(sm.map[id].testcase)]
    ELSE [sm |-> sm, ret |-> None]

\* remove that takes the item out of the map and the keys and leaves every
\* link as it was.
StorageMap_remove_unspliced(sm, id) ==
    IF id \notin DOMAIN sm.map
    THEN [sm |-> sm, ret |-> None, panic |-> FALSE]
    ELSE [sm    |-> [sm EXCEPT !.map = MapRemove(sm.map, id),
                               !.keys = remove_key(sm.keys, id)],
          ret   |-> Some(sm.map[id].testcase),
          panic |-> FALSE]

\* remove that splices the neighbours and leaves last_id as it was.
StorageMap_remove_tail_kept(sm, id) ==
    IF id \notin DOMAIN sm.map
    THEN [sm |-> sm, ret |-> None, panic |-> FALSE]
    ELSE
      LET item == sm.map[id]
          m1 == MapRemove(sm.map, id)
          k1 == remove_key(sm.keys, id)
          m2 == IF IsSome(item.prev)
                THEN [m1 EXCEPT ![Unwrap(item.prev)].next = item.next]
                ELSE m1
          first1 == IF IsSome(item.prev) THEN sm.first_id ELSE item.next
          m3 == IF IsSome(item.next)
                THEN [m2 EXCEPT ![Unwrap(item.next)].prev = item.prev]
                ELSE m2
      IN  [sm    |-> [map |-> m3, keys |-> k1, first_id |-> first1,
                      last_id |-> sm.last_id],
           ret   |-> Some(item.testcase),
           panic |-> FALSE]

\* remove that links the predecessor to the successor and leaves the
\* successor's prev as it was.
StorageMap_remove_prev_kept(sm, id) ==
    IF id \notin DOMAIN sm.map
    THEN [sm |-> sm, ret |-> None, panic |-> FALSE]
    ELSE
      LET item == sm.map[id]
          m1 == MapRemove(sm.map, id)
          k1 == remove_key(sm.keys, id)
          m2 == IF IsSome(item.prev)
                THEN [m1 EXCEPT ![Unwrap(item.prev)].next = item.next]
                ELSE m1
          first1 == IF IsSome(item.prev) THEN sm.first_id ELSE item.next
          last1 == IF IsSome(item.next) THEN sm.last_id ELSE item.prev
      IN  [sm    |-> [map |-> m2, keys |-> k1, first_id |-> first1, last_id |-> last1],
           ret   |-> Some(item.testcase),
           panic |-> FALSE]

\* TestcaseStorageMap::remove: unlinks the item from its neighbours.  The
\* two unwrap() calls panic when a link names an id that is not in the map.
StorageMap_remove(sm, id) ==
    IF id \notin DOMAIN sm.map
    THEN [sm |-> sm, ret |-> None, panic |-> FALSE]
    ELSE
      LET item == sm.map[id]
          m1 == MapRemove(sm.map, id)
          k1 == remove_key(sm.keys, id)
          panicPrev == IsSome(item.prev) /\ Unwrap(item.prev) \notin DOMAIN m1
          m2 == IF IsSome(item.prev) /\ ~panicPrev
                THEN [m1 EXCEPT ![Unwrap(item.prev)].next = item.next]
                ELSE m1
          first1 == IF IsSome(item.prev) THEN sm.first_id ELSE item.next
          panicNext == IsSome(item.next) /\ Unwrap(item.next) \notin DOMAIN m2
          m3 == IF IsSome(item.next) /\ ~panicNext
                THEN [m2 EXCEPT ![Unwrap(item.next)].prev = item.prev]
                ELSE m2
          last1 == IF IsSome(item.next) THEN sm.last_id ELSE item.prev
      IN  [sm    |-> [map |-> m3, keys |-> k1, first_id |-> first1, last_id |-> last1],
           ret   |-> Some(item.testcase),
           panic |-> panicPrev \/ panicNext]

StorageMap_get(sm, id) ==
    IF id \in DOMAIN sm.map THEN Some(sm.map[id].testcase) ELSE None

StorageMap_next(sm, id) ==
    IF id \in DOMAIN sm.map THEN sm.map[id].next ELSE None

StorageMap_prev(sm, id) ==
    IF id \in DOMAIN sm.map THEN sm.map[id].prev ELSE None

\* first that gives the lowest key.
StorageMap_first_lowest_key(sm) ==
    IF Len(sm.keys) = 0 THEN None ELSE Some(sm.keys[1])

StorageMap_first(sm) == sm.first_id

StorageMap_last(sm) == sm.last_id

\* --------------------------- TestcaseStorageMap (feature corpus_btreemap)

\* The BTreeMap's keys in ascending order, as BTreeMap::iter and ::range
\* yield them.
RECURSIVE SortedSeq(_)
SortedSeq(S) ==
    IF S = {} THEN << >>
    ELSE LET m == CHOOSE x \in S : \A y \in S : x <= y
         IN  << m >> \o SortedSeq(S \ {m})

TestcaseStorageMap_new_btreemap == [map |-> << >>, keys |-> << >>]

StorageMap_replace_btreemap(sm, id, tc) ==
    IF id \in DOMAIN sm.map
    THEN [sm |-> [sm EXCEPT !.map[id] = tc], ret |-> Some(sm.map[id])]
    ELSE [sm |-> sm, ret |-> None]

StorageMap_remove_btreemap(sm, id) ==
    [sm  |-> [map  |-> MapRemove(sm.map, id), keys |-> remove_key(sm.keys, id)],
     ret |-> IF id \in DOMAIN sm.map THEN Some(sm.map[id]) ELSE None]

StorageMap_get_btreemap(sm, id) ==
    IF id \in DOMAIN sm.map THEN Some(sm.map[id]) ELSE None

\* next that takes the second key of the range whatever the first one is.
StorageMap_next_btreemap_unchecked(sm, id) ==
    LET range == SortedSeq({k \in DOMAIN sm.map : k >= id})
    IN  IF Len(range) >= 2 THEN Some(range[2]) ELSE None

\* range(Included(id), Unbounded): the first key must be id itself, the
\* second one is the answer.
StorageMap_next_btreemap(sm, id) ==
    LET range == SortedSeq({k \in DOMAIN sm.map : k >= id})
    IN  IF Len(range) >= 1 /\ range[1] # id THEN None
        ELSE IF Len(range) >= 2 THEN Some(range[2])
        ELSE None

\* range(Unbounded, Included(id)) read from the back.
StorageMap_prev_btreemap(sm, id) ==
    LET range == SortedSeq({k \in DOMAIN sm.map : k <= id})
        n == Len(range)
    IN  IF n >= 1 /\ range[n] # id THEN None
        ELSE IF n >= 2 THEN Some(range[n - 1])
        ELSE None

StorageMap_first_btreemap(sm) ==
    LET it == SortedSeq(DOMAIN sm.map)
    IN  IF Len(it) = 0 THEN None ELSE Some(it[1])

StorageMap_last_btreemap(sm) ==
    LET it == SortedSeq(DOMAIN sm.map)
    IN  IF Len(it) = 0 THEN None ELSE Some(it[Len(it)])

\* ------------------------------------------------ TestcaseStorage (linked)

\* TestcaseStorage::new
TestcaseStorage_new ==
    [enabled        |-> TestcaseStorageMap_new,
     disabled       |-> TestcaseStorageMap_new,
     progressive_id |-> 0]

\* The partition is_disabled selects.
Partition(st, is_disabled) == IF is_disabled THEN st.disabled ELSE st.enabled

WithPartition(st, is_disabled, sm) ==
    IF is_disabled THEN [st EXCEPT !.disabled = sm] ELSE [st EXCEPT !.enabled = sm]

\* The same with the item linked before first_id, as the new head.
LinkFirst(corpus, tc, id) ==
    LET panics == IsSome(corpus.first_id) /\ Unwrap(corpus.first_id) \notin DOMAIN corpus.map
        m1 == IF IsSome(corpus.first_id) /\ ~panics
              THEN [corpus.map EXCEPT ![Unwrap(corpus.first_id)].prev = Some(id)]
              ELSE corpus.map
        last1 == IF IsNone(corpus.last_id) THEN Some(id) ELSE corpus.last_id
    IN  [sm    |-> [map      |-> MapInsert(m1, id, TestcaseStorageItem(tc, None, corpus.first_id)),
                    keys     |-> insert_key(corpus.keys, id),
                    first_id |-> Some(id),
                    last_id  |-> last1],
         panic |-> panics]

\* The tail both insert_inner and insert_inner_with_id share: link the item
\* after last_id, set first_id/last_id, insert the key and the item.  The
\* unwrap() panics when last_id names an id that is not in the map.
LinkLast(corpus, tc, id) ==
    LET panics == IsSome(corpus.last_id) /\ Unwrap(corpus.last_id) \notin DOMAIN corpus.map
        m1 == IF IsSome(corpus.last_id) /\ ~panics
              THEN [corpus.map EXCEPT ![Unwrap(corpus.last_id)].next = Some(id)]
              ELSE corpus.map
        prev == corpus.last_id
        first1 == IF IsNone(corpus.first_id) THEN Some(id) ELSE corpus.first_id
    IN  [sm    |-> [map      |-> MapInsert(m1, id, TestcaseStorageItem(tc, prev, None)),
                    keys     |-> insert_key(corpus.keys, id),
                    first_id |-> first1,
                    last_id  |-> Some(id)],
         panic |-> panics]

\* insert_inner with the counter left where it was: the next insertion is
\* handed the same id again.
insert_inner_counter_kept(st, tc, is_disabled) ==
    LET id == st.progressive_id
        l == LinkLast(Partition(st, is_disabled), tc, id)
    IN  [st |-> WithPartition(st, is_disabled, l.sm), id |-> id, panic |-> l.panic]

\* insert_inner that issues the lowest id no stored testcase holds.
insert_inner_lowest_free(st, tc, is_disabled) ==
    LET used == (DOMAIN st.enabled.map) \cup (DOMAIN st.disabled.map)
        id == CHOOSE n \in 0 .. st.progressive_id :
                 /\ n \notin used
                 /\ \A k \in 0 .. st.progressive_id : k \notin used => n <= k
        st1 == [st EXCEPT !.progressive_id = IF id < @ THEN @ ELSE @ + 1]
        l == LinkLast(Partition(st1, is_disabled), tc, id)
    IN  [st |-> WithPartition(st1, is_disabled, l.sm), id |-> id, panic |-> l.panic]

\* TestcaseStorage::insert_inner: issue progressive_id and append.
insert_inner(st, tc, is_disabled) ==
    LET id == st.progressive_id
        st1 == [st EXCEPT !.progressive_id = @ + 1]
        l == LinkLast(Partition(st1, is_disabled), tc, id)
    IN  [st |-> WithPartition(st1, is_disabled, l.sm), id |-> id, panic |-> l.panic]

\* insert_inner_with_id that takes the id for the newest and sets the counter
\* right behind it.
insert_inner_with_id_counter_set(st, tc, is_disabled, id) ==
    IF st.progressive_id < id
    THEN [st |-> st, res |-> "IllegalState", panic |-> FALSE]
    ELSE LET st1 == [st EXCEPT !.progressive_id = id + 1]
             l == LinkLast(Partition(st1, is_disabled), tc, id)
         IN  [st |-> WithPartition(st1, is_disabled, l.sm), res |-> "Ok", panic |-> l.panic]

\* insert_inner_with_id that reinserts into the enabled map whatever
\* is_disabled says.
insert_inner_with_id_enabled_always(st, tc, is_disabled, id) ==
    IF st.progressive_id < id
    THEN [st |-> st, res |-> "IllegalState", panic |-> FALSE]
    ELSE LET l == LinkLast(st.enabled, tc, id)
         IN  [st |-> [st EXCEPT !.enabled = l.sm], res |-> "Ok", panic |-> l.panic]

\* insert_inner_with_id with the comparison the other way round: it turns
\* down the ids that were issued.
insert_inner_with_id_guard_flipped(st, tc, is_disabled, id) ==
    IF id < st.progressive_id
    THEN [st |-> st, res |-> "IllegalState", panic |-> FALSE]
    ELSE LET l == LinkLast(Partition(st, is_disabled), tc, id)
         IN  [st |-> WithPartition(st, is_disabled, l.sm), res |-> "Ok", panic |-> l.panic]

\* TestcaseStorage::insert_inner_with_id: reinsert under a given id.
insert_inner_with_id(st, tc, is_disabled, id) ==
    IF st.progressive_id < id
    THEN [st |-> st, res |-> "IllegalState", panic |-> FALSE]
    ELSE LET l == LinkLast(Partition(st, is_disabled), tc, id)
         IN  [st |-> WithPartition(st, is_disabled, l.sm), res |-> "Ok", panic |-> l.panic]

\* insert that appends to the disabled map.
insert_into_disabled(st, tc) == insert_inner(st, tc, TRUE)

insert(st, tc) == insert_inner(st, tc, FALSE)

\* insert_disabled that appends to the enabled map.
insert_disabled_into_enabled(st, tc) == insert_inner(st, tc, FALSE)

insert_disabled(st, tc) == insert_inner(st, tc, TRUE)

\* peek_free_id that tells the id issued last.
Storage_peek_free_id_last(st) ==
    IF st.progressive_id > 0 THEN st.progressive_id - 1 ELSE 0

Storage_peek_free_id(st) == st.progressive_id

\* ------------------------------ TestcaseStorage (feature corpus_btreemap)

TestcaseStorage_new_btreemap ==
    [enabled        |-> TestcaseStorageMap_new_btreemap,
     disabled       |-> TestcaseStorageMap_new_btreemap,
     progressive_id |-> 0]

insert_inner_btreemap(st, tc, is_disabled) ==
    LET id == st.progressive_id
        st1 == [st EXCEPT !.progressive_id = @ + 1]
        corpus == Partition(st1, is_disabled)
        sm == [map |-> MapInsert(corpus.map, id, tc), keys |-> insert_key(corpus.keys, id)]
    IN  [st |-> WithPartition(st1, is_disabled, sm), id |-> id]

insert_inner_with_id_btreemap(st, tc, is_disabled, id) ==
    IF st.progressive_id < id
    THEN [st |-> st, res |-> "IllegalState"]
    ELSE LET corpus == Partition(st, is_disabled)
             sm == [map  |-> MapInsert(corpus.map, id, tc),
                    keys |-> insert_key(corpus.keys, id)]
         IN  [st |-> WithPartition(st, is_disabled, sm), res |-> "Ok"]


\* ------------------------------------------------ InMemoryCorpus (linked)
\* Each operation is a function of the storage: the storage it leaves, its
\* result (Ok or the error's kind; Panic when an unwrap() fails) and the
\* value it returns.

Corpus_count(st) == Cardinality(DOMAIN st.enabled.map)

Corpus_count_disabled(st) == Cardinality(DOMAIN st.disabled.map)

\* usize::saturating_add
saturating_add(a, b) == IF a + b > UsizeMax THEN UsizeMax ELSE a + b

Corpus_count_all(st) ==
    saturating_add(Cardinality(DOMAIN st.enabled.map), Cardinality(DOMAIN st.disabled.map))

Corpus_add(st, tc) ==
    LET r == insert(st, tc)
    IN  [st |-> r.st, res |-> IF r.panic THEN "Panic" ELSE "Ok", ret |-> Some(r.id)]

Corpus_add_disabled(st, tc) ==
    LET r == insert_disabled(st, tc)
    IN  [st |-> r.st, res |-> IF r.panic THEN "Panic" ELSE "Ok", ret |-> Some(r.id)]

\* replace that falls back to the disabled partition.
Corpus_replace_from_all(st, id, tc) ==
    LET e == StorageMap_replace(st.enabled, id, tc)
        d == StorageMap_replace(st.disabled, id, tc)
    IN  IF IsSome(e.ret)
        THEN [st |-> [st EXCEPT !.enabled = e.sm], res |-> "Ok", ret |-> e.ret]
        ELSE [st  |-> [st EXCEPT !.disabled = d.sm],
              res |-> IF IsSome(d.ret) THEN "Ok" ELSE "KeyNotFound",
              ret |-> d.ret]

\* replace that stores the testcase under an id it did not find, at the end
\* of the enabled list, and reports KeyNotFound.
Corpus_replace_upsert(st, id, tc) ==
    LET r == StorageMap_replace(st.enabled, id, tc)
        l == LinkLast(st.enabled, tc, id)
    IN  IF IsSome(r.ret)
        THEN [st |-> [st EXCEPT !.enabled = r.sm], res |-> "Ok", ret |-> r.ret]
        ELSE [st |-> [st EXCEPT !.enabled = l.sm], res |-> "KeyNotFound", ret |-> None]

Corpus_replace(st, id, tc) ==
    LET r == StorageMap_replace(st.enabled, id, tc)
    IN  [st  |-> [st EXCEPT !.enabled = r.sm],
         res |-> IF IsSome(r.ret) THEN "Ok" ELSE "KeyNotFound",
         ret |-> r.ret]

\* remove that looks in the enabled partition only.
Corpus_remove_enabled_only(st, id) ==
    LET e == StorageMap_remove(st.enabled, id)
    IN  [st  |-> [st EXCEPT !.enabled = e.sm],
         res |-> IF e.panic THEN "Panic"
                 ELSE IF IsSome(e.ret) THEN "Ok" ELSE "KeyNotFound",
         ret |-> e.ret]

\* remove that hands out a disabled testcase and leaves it stored.
Corpus_remove_disabled_kept(st, id) ==
    LET e == StorageMap_remove(st.enabled, id)
        d == StorageMap_get(st.disabled, id)
    IN  IF IsSome(e.ret)
        THEN [st |-> [st EXCEPT !.enabled = e.sm], res |-> "Ok", ret |-> e.ret]
        ELSE [st  |-> st,
              res |-> IF IsSome(d) THEN "Ok" ELSE "KeyNotFound",
              ret |-> d]

\* remove that gives the id back to the counter when it is the one issued
\* last.
Corpus_remove_counter_reclaimed(st, id) ==
    LET e == StorageMap_remove(st.enabled, id)
        d == StorageMap_remove(st.disabled, id)
        back(s) == IF id + 1 = s.progressive_id
                   THEN [s EXCEPT !.progressive_id = id] ELSE s
    IN  IF IsSome(e.ret) \/ e.panic
        THEN [st  |-> back([st EXCEPT !.enabled = e.sm]),
              res |-> IF e.panic THEN "Panic" ELSE "Ok",
              ret |-> e.ret]
        ELSE [st  |-> IF IsSome(d.ret)
                      THEN back([st EXCEPT !.enabled = e.sm, !.disabled = d.sm])
                      ELSE [st EXCEPT !.enabled = e.sm, !.disabled = d.sm],
              res |-> IF d.panic THEN "Panic"
                      ELSE IF IsSome(d.ret) THEN "Ok" ELSE "KeyNotFound",
              ret |-> d.ret]

Corpus_remove(st, id) ==
    LET e == StorageMap_remove(st.enabled, id)
        d == StorageMap_remove(st.disabled, id)
    IN  IF IsSome(e.ret) \/ e.panic
        THEN [st  |-> [st EXCEPT !.enabled = e.sm],
              res |-> IF e.panic THEN "Panic" ELSE "Ok",
              ret |-> e.ret]
        ELSE [st  |-> [st EXCEPT !.enabled = e.sm, !.disabled = d.sm],
              res |-> IF d.panic THEN "Panic"
                      ELSE IF IsSome(d.ret) THEN "Ok" ELSE "KeyNotFound",
              ret |-> d.ret]

\* get that falls back to the disabled partition.
Corpus_get_both(st, id) ==
    LET e == StorageMap_get(st.enabled, id)
        r == IF IsNone(e) THEN StorageMap_get(st.disabled, id) ELSE e
    IN  [res |-> IF IsSome(r) THEN "Ok" ELSE "KeyNotFound", ret |-> r]

Corpus_get(st, id) ==
    LET r == StorageMap_get(st.enabled, id)
    IN  [res |-> IF IsSome(r) THEN "Ok" ELSE "KeyNotFound", ret |-> r]

\* get_from_all that looks in the enabled partition only.
Corpus_get_from_all_enabled_only(st, id) ==
    LET r == StorageMap_get(st.enabled, id)
    IN  [res |-> IF IsSome(r) THEN "Ok" ELSE "KeyNotFound", ret |-> r]

Corpus_get_from_all(st, id) ==
    LET e == StorageMap_get(st.enabled, id)
        r == IF IsNone(e) THEN StorageMap_get(st.disabled, id) ELSE e
    IN  [res |-> IF IsSome(r) THEN "Ok" ELSE "KeyNotFound", ret |-> r]

\* next that gives the next higher id of keys.
Corpus_next_by_key(st, id) ==
    LET r == binary_search(st.enabled.keys, id)
    IN  IF r.found /\ r.idx + 1 < Len(st.enabled.keys)
        THEN Some(st.enabled.keys[r.idx + 2])
        ELSE None

Corpus_next(st, id) == StorageMap_next(st.enabled, id)

Corpus_prev(st, id) == StorageMap_prev(st.enabled, id)

Corpus_first(st) == StorageMap_first(st.enabled)

Corpus_last(st) == StorageMap_last(st.enabled)

Corpus_peek_free_id(st) == Storage_peek_free_id(st)

\* nth that gives the last key for an index past the end.
Corpus_nth_clamped(st, nth) ==
    IF nth < Len(st.enabled.keys)
    THEN [res |-> "Ok", ret |-> Some(st.enabled.keys[nth + 1])]
    ELSE IF Len(st.enabled.keys) > 0
    THEN [res |-> "Ok", ret |-> Some(st.enabled.keys[Len(st.enabled.keys)])]
    ELSE [res |-> "Panic", ret |-> None]

\* keys[nth]: indexing past the end panics.
Corpus_nth(st, nth) ==
    IF nth < Len(st.enabled.keys)
    THEN [res |-> "Ok", ret |-> Some(st.enabled.keys[nth + 1])]
    ELSE [res |-> "Panic", ret |-> None]

\* usize::saturating_sub
saturating_sub(a, b) == IF a < b THEN 0 ELSE a - b

\* nth_from_all that indexes the disabled keys with nth as it came.
Corpus_nth_from_all_no_offset(st, nth) ==
    IF nth >= Corpus_count(st)
    THEN IF nth < Len(st.disabled.keys)
         THEN [res |-> "Ok", ret |-> Some(st.disabled.keys[nth + 1])]
         ELSE [res |-> "Panic", ret |-> None]
    ELSE IF nth < Len(st.enabled.keys)
         THEN [res |-> "Ok", ret |-> Some(st.enabled.keys[nth + 1])]
         ELSE [res |-> "Panic", ret |-> None]

\* enabled keys[nth] below count(), disabled keys[nth - count()] from there on;
\* either indexing panics past the end.
Corpus_nth_from_all(st, nth) ==
    LET enabled_count == Corpus_count(st)
        i == saturating_sub(nth, enabled_count)
    IN  IF nth >= enabled_count
        THEN IF i < Len(st.disabled.keys)
             THEN [res |-> "Ok", ret |-> Some(st.disabled.keys[i + 1])]
             ELSE [res |-> "Panic", ret |-> None]
        ELSE IF nth < Len(st.enabled.keys)
             THEN [res |-> "Ok", ret |-> Some(st.enabled.keys[nth + 1])]
             ELSE [res |-> "Panic", ret |-> None]

\* disable that reads the testcase and leaves it in the enabled map.
Corpus_disable_copied(st, id) ==
    LET e == StorageMap_get(st.enabled, id)
        r == insert_inner_with_id(st, Unwrap(e), TRUE, id)
    IN  IF IsSome(e)
        THEN [st |-> r.st, res |-> IF r.panic THEN "Panic" ELSE r.res]
        ELSE [st |-> st, res |-> "KeyNotFound"]

\* disable that accepts an id that is disabled already.
Corpus_disable_lenient(st, id) ==
    LET e == StorageMap_remove(st.enabled, id)
        st1 == [st EXCEPT !.enabled = e.sm]
        r == insert_inner_with_id(st1, Unwrap(e.ret), TRUE, id)
    IN  IF IsSome(e.ret)
        THEN [st |-> r.st, res |-> IF r.panic THEN "Panic" ELSE r.res]
        ELSE IF id \in DOMAIN st.disabled.map
        THEN [st |-> st, res |-> "Ok"]
        ELSE [st |-> st1, res |-> "KeyNotFound"]

\* EnableDisableCorpus::disable: the testcase is taken out of the enabled
\* map first, and is gone when the reinsertion fails.
Corpus_disable(st, id) ==
    LET e == StorageMap_remove(st.enabled, id)
        st1 == [st EXCEPT !.enabled = e.sm]
        r == insert_inner_with_id(st1, Unwrap(e.ret), TRUE, id)
    IN  IF e.panic THEN [st |-> st1, res |-> "Panic"]
        ELSE IF IsSome(e.ret)
        THEN [st |-> r.st, res |-> IF r.panic THEN "Panic" ELSE r.res]
        ELSE [st |-> st1, res |-> "KeyNotFound"]

\* enable that puts a testcase of its own making under the id.
Corpus_enable_fresh(st, id) ==
    LET d == StorageMap_remove(st.disabled, id)
        st1 == [st EXCEPT !.disabled = d.sm]
        r == insert_inner_with_id(st1, Testcase(<< 1, 2, 3 >>), FALSE, id)
    IN  IF d.panic THEN [st |-> st1, res |-> "Panic"]
        ELSE IF IsSome(d.ret)
        THEN [st |-> r.st, res |-> IF r.panic THEN "Panic" ELSE r.res]
        ELSE [st |-> st1, res |-> "KeyNotFound"]

\* EnableDisableCorpus::enable
Corpus_enable(st, id) ==
    LET d == StorageMap_remove(st.disabled, id)
        st1 == [st EXCEPT !.disabled = d.sm]
        r == insert_inner_with_id(st1, Unwrap(d.ret), FALSE, id)
    IN  IF d.panic THEN [st |-> st1, res |-> "Panic"]
        ELSE IF IsSome(d.ret)
        THEN [st |-> r.st, res |-> IF r.panic THEN "Panic" ELSE r.res]
        ELSE [st |-> st1, res |-> "KeyNotFound"]

\* ------------------------------ InMemoryCorpus (feature corpus_btreemap)

Corpus_add_btreemap(st, tc) ==
    LET r == insert_inner_btreemap(st, tc, FALSE)
    IN  [st |-> r.st, res |-> "Ok", ret |-> Some(r.id)]

Corpus_add_disabled_btreemap(st, tc) ==
    LET r == insert_inner_btreemap(st, tc, TRUE)
    IN  [st |-> r.st, res |-> "Ok", ret |-> Some(r.id)]

Corpus_replace_btreemap(st, id, tc) ==
    LET r == StorageMap_replace_btreemap(st.enabled, id, tc)
    IN  [st  |-> [st EXCEPT !.enabled = r.sm],
         res |-> IF IsSome(r.ret) THEN "Ok" ELSE "KeyNotFound",
         ret |-> r.ret]

Corpus_remove_btreemap(st, id) ==
    LET e == StorageMap_remove_btreemap(st.enabled, id)
        d == StorageMap_remove_btreemap(st.disabled, id)
    IN  IF IsSome(e.ret)
        THEN [st |-> [st EXCEPT !.enabled = e.sm], res |-> "Ok", ret |-> e.ret]
        ELSE [st  |-> [st EXCEPT !.enabled = e.sm, !.disabled = d.sm],
              res |-> IF IsSome(d.ret) THEN "Ok" ELSE "KeyNotFound",
              ret |-> d.ret]

Corpus_get_btreemap(st, id) ==
    LET r == StorageMap_get_btreemap(st.enabled, id)
    IN  [res |-> IF IsSome(r) THEN "Ok" ELSE "KeyNotFound", ret |-> r]

Corpus_next_btreemap(st, id) == StorageMap_next_btreemap(st.enabled, id)

Corpus_prev_btreemap(st, id) == StorageMap_prev_btreemap(st.enabled, id)

Corpus_first_btreemap(st) == StorageMap_first_btreemap(st.enabled)

Corpus_last_btreemap(st) == StorageMap_last_btreemap(st.enabled)

Corpus_nth_btreemap(st, nth) ==
    IF nth < Len(st.enabled.keys)
    THEN [res |-> "Ok", ret |-> Some(st.enabled.keys[nth + 1])]
    ELSE [res |-> "Panic", ret |-> None]

Corpus_disable_btreemap(st, id) ==
    LET e == StorageMap_remove_btreemap(st.enabled, id)
        st1 == [st EXCEPT !.enabled = e.sm]
    IN  IF IsSome(e.ret)
        THEN LET r == insert_inner_with_id_btreemap(st1, Unwrap(e.ret), TRUE, id)
             IN  [st |-> r.st, res |-> r.res]
        ELSE [st |-> st1, res |-> "KeyNotFound"]

Corpus_enable_btreemap(st, id) ==
    LET d == StorageMap_remove_btreemap(st.disabled, id)
        st1 == [st EXCEPT !.disabled = d.sm]
    IN  IF IsSome(d.ret)
        THEN LET r == insert_inner_with_id_btreemap(st1, Unwrap(d.ret), FALSE, id)
             IN  [st |-> r.st, res |-> r.res]
        ELSE [st |-> st1, res |-> "KeyNotFound"]

\* ------------------------------------------------- RefCell<Testcase<I>>

\* The borrow flag of a RefCell: 0 unused, n > 0 for n shared borrows alive,
\* -1 for one exclusive borrow alive.
\* RefCell::borrow: granted unless an exclusive borrow is alive.
RefCell_borrow(flag) ==
    IF flag < 0 THEN [flag |-> flag, panic |-> TRUE]
    ELSE [flag |-> flag + 1, panic |-> FALSE]

\* RefCell::borrow_mut: granted only when no borrow is alive.
RefCell_borrow_mut(flag) ==
    IF flag # 0 THEN [flag |-> flag, panic |-> TRUE]
    ELSE [flag |-> 0 - 1, panic |-> FALSE]

\* Dropping a Ref.
Ref_drop(flag) == flag - 1

\* Dropping a RefMut.
RefMut_drop(flag) == flag + 1

\* ------------------------------------------------------- the state machine

VARIABLES
    storage,           \* InMemoryCorpus.storage, default build
    storage_btreemap,  \* InMemoryCorpus.storage, built with corpus_btreemap
    current,           \* InMemoryCorpus.current
    call,              \* the last call: operation, id passed, what the id was when
                       \* the call was made, result, value returned
    status,            \* history: per id issued, "enabled", "disabled" or "removed",
                       \* as the calls made so far leave it by their contracts
    given,             \* history: per id in use, the testcase the caller last
                       \* handed in for it (add, add_disabled, replace of an
                       \* enabled id) and has not taken back (remove)
    borrow,            \* per stored testcase, the borrow flag of its RefCell
                       \* where it is not 0
    hook_chain,        \* an event manager's hook tuple, the *_all call last
                       \* made on it, the hooks it invoked and what it returned
    strcmp_call,       \* the two pointers handed to patch_strcmp and what the
                       \* call did
    keys_call          \* a keys vector, the insert_key or remove_key call last
                       \* made on it and the vector before the call

vars == << storage, storage_btreemap, current, call, status, given, borrow,
          hook_chain, strcmp_call, keys_call >>

\* What the corpus runs leave alone.
NoHookChain == [hooks |-> << >>, op |-> "none", invoked |-> << >>, res |-> [tag |-> "none", val |-> "-"]]
NoStrcmpCall ==
    [cs |-> None, ct |-> None, done |-> FALSE, panic |-> "none", read |-> FALSE, ret |-> 0]
NoKeysCall == [keys |-> << >>, op |-> "none", id |-> 0, before |-> << >>]

Call(op, id, was, res, ret) ==
    [op |-> op, id |-> id, was |-> was, res |-> res, ret |-> ret]

\* What the calls made so far have made of id.
StatusOf(id) == IF id \in DOMAIN status THEN status[id] ELSE "never"

\* InMemoryCorpus::new
Init ==
    /\ storage = TestcaseStorage_new
    /\ storage_btreemap = TestcaseStorage_new_btreemap
    /\ current = None
    /\ call = Call("new", None, "-", "Ok", None)
    /\ status = << >>
    /\ given = << >>
    /\ borrow = << >>
    /\ hook_chain = NoHookChain
    /\ strcmp_call = NoStrcmpCall
    /\ keys_call = NoKeysCall

Add(tc) ==
    /\ storage.progressive_id < MaxIds
    /\ LET r == Corpus_add(storage, tc)
       IN  /\ storage' = r.st
           /\ call' = Call("add", None, "-", r.res, r.ret)
           /\ status' = MapInsert(status, Unwrap(r.ret), "enabled")
           /\ given' = MapInsert(given, Unwrap(r.ret), tc)
    /\ storage_btreemap' = Corpus_add_btreemap(storage_btreemap, tc).st
    /\ UNCHANGED current
    /\ UNCHANGED << borrow, hook_chain, strcmp_call, keys_call >>

AddDisabled(tc) ==
    /\ storage.progressive_id < MaxIds
    /\ LET r == Corpus_add_disabled(storage, tc)
       IN  /\ storage' = r.st
           /\ call' = Call("add_disabled", None, "-", r.res, r.ret)
           /\ status' = MapInsert(status, Unwrap(r.ret), "disabled")
           /\ given' = MapInsert(given, Unwrap(r.ret), tc)
    /\ storage_btreemap' = Corpus_add_disabled_btreemap(storage_btreemap, tc).st
    /\ UNCHANGED current
    /\ UNCHANGED << borrow, hook_chain, strcmp_call, keys_call >>

Replace(id, tc) ==
    /\ LET r == Corpus_replace(storage, id, tc)
       IN  /\ storage' = r.st
           /\ call' = Call("replace", Some(id), StatusOf(id), r.res, r.ret)
    /\ given' = IF StatusOf(id) = "enabled" THEN MapInsert(given, id, tc) ELSE given
    /\ storage_btreemap' = Corpus_replace_btreemap(storage_btreemap, id, tc).st
    /\ UNCHANGED << current, status >>
    /\ UNCHANGED << borrow, hook_chain, strcmp_call, keys_call >>

\* remove that takes the cursor off the id it removes.
Remove_cursor_cleared(id) ==
    /\ LET r == Corpus_remove(storage, id)
       IN  /\ storage' = r.st
           /\ call' = Call("remove", Some(id), StatusOf(id), r.res, r.ret)
           /\ current' = IF r.res = "Ok" /\ current = Some(id) THEN None ELSE current
    /\ IF StatusOf(id) \in {"enabled", "disabled"}
       THEN /\ status' = [status EXCEPT ![id] = "removed"]
            /\ given' = MapRemove(given, id)
       ELSE UNCHANGED << status, given >>
    /\ storage_btreemap' = Corpus_remove_btreemap(storage_btreemap, id).st
    /\ UNCHANGED << borrow, hook_chain, strcmp_call, keys_call >>

Remove(id) ==
    /\ LET r == Corpus_remove(storage, id)
       IN  /\ storage' = r.st
           /\ call' = Call("remove", Some(id), StatusOf(id), r.res, r.ret)
    /\ IF StatusOf(id) \in {"enabled", "disabled"}
       THEN /\ status' = [status EXCEPT ![id] = "removed"]
            /\ given' = MapRemove(given, id)
       ELSE UNCHANGED << status, given >>
    /\ storage_btreemap' = Corpus_remove_btreemap(storage_btreemap, id).st
    /\ UNCHANGED current
    /\ UNCHANGED << borrow, hook_chain, strcmp_call, keys_call >>

\* disable that takes the cursor off the id it disables.
Disable_cursor_cleared(id) ==
    /\ LET r == Corpus_disable(storage, id)
       IN  /\ storage' = r.st
           /\ call' = Call("disable", Some(id), StatusOf(id), r.res, None)
           /\ current' = IF r.res = "Ok" /\ current = Some(id) THEN None ELSE current
    /\ status' = IF StatusOf(id) = "enabled"
                 THEN [status EXCEPT ![id] = "disabled"] ELSE status
    /\ storage_btreemap' = Corpus_disable_btreemap(storage_btreemap, id).st
    /\ UNCHANGED given
    /\ UNCHANGED << borrow, hook_chain, strcmp_call, keys_call >>

Disable(id) ==
    /\ LET r == Corpus_disable(storage, id)
       IN  /\ storage' = r.st
           /\ call' = Call("disable", Some(id), StatusOf(id), r.res, None)
    /\ status' = IF StatusOf(id) = "enabled"
                 THEN [status EXCEPT ![id] = "disabled"] ELSE status
    /\ storage_btreemap' = Corpus_disable_btreemap(storage_btreemap, id).st
    /\ UNCHANGED << current, given >>
    /\ UNCHANGED << borrow, hook_chain, strcmp_call, keys_call >>

Enable(id) ==
    /\ LET r == Corpus_enable(storage, id)
       IN  /\ storage' = r.st
           /\ call' = Call("enable", Some(id), StatusOf(id), r.res, None)
    /\ status' = IF StatusOf(id) = "disabled"
                 THEN [status EXCEPT ![id] = "enabled"] ELSE status
    /\ storage_btreemap' = Corpus_enable_btreemap(storage_btreemap, id).st
    /\ UNCHANGED << current, given >>
    /\ UNCHANGED << borrow, hook_chain, strcmp_call, keys_call >>

\* corpus.peek_free_id(): a &self method, it returns and leaves all as it is.
PeekFreeId ==
    /\ call' = Call("peek_free_id", None, "-", "Ok", Some(Corpus_peek_free_id(storage)))
    /\ UNCHANGED << storage, storage_btreemap, current, status, given >>
    /\ UNCHANGED << borrow, hook_chain, strcmp_call, keys_call >>

\* *corpus.current_mut() = c: any value, the corpus checks nothing.
CurrentMut(c) ==
    /\ current' = c
    /\ call' = Call("current_mut", c, "-", "Ok", None)
    /\ UNCHANGED << storage, storage_btreemap, status, given >>
    /\ UNCHANGED << borrow, hook_chain, strcmp_call, keys_call >>

Next ==
    \/ \E tc \in Testcases : Add(tc)
    \/ \E tc \in Testcases : AddDisabled(tc)
    \/ \E id \in Ids, tc \in Testcases : Replace(id, tc)
    \/ \E id \in Ids : Remove(id)
    \/ \E id \in Ids : Disable(id)
    \/ \E id \in Ids : Enable(id)
    \/ PeekFreeId

\* The corpus as the calls that change its storage drive it; the cursor,
\* which none of them reads or writes, stays as new() left it.
Spec == Init /\ [][Next]_vars

\* The same with a caller that also moves the cursor, as a scheduler does:
\* it stores None or an id that is enabled when it stores it.
NextCursor ==
    \/ \E tc \in Testcases : storage.progressive_id < MaxCursorIds /\ Add(tc)
    \/ \E tc \in Testcases : storage.progressive_id < MaxCursorIds /\ AddDisabled(tc)
    \/ \E id \in Ids, tc \in Testcases : Replace(id, tc)
    \/ \E id \in Ids : Remove(id)
    \/ \E id \in Ids : Disable(id)
    \/ \E id \in Ids : Enable(id)
    \/ PeekFreeId
    \/ \E c \in {None} \cup { Some(id) : id \in DOMAIN storage.enabled.map } : CurrentMut(c)

SpecCursor == Init /\ [][NextCursor]_vars

\* --------------------------------------------------- reading the state

EnabledIds(st) == DOMAIN st.enabled.map
DisabledIds(st) == DOMAIN st.disabled.map
LiveIds(st) == EnabledIds(st) \cup DisabledIds(st)

\* first(), next(first()), ... of a linked map, for at most n steps.
RECURSIVE WalkNext(_, _, _)
WalkNext(sm, o, n) ==
    IF IsNone(o) \/ n = 0 THEN << >>
    ELSE << Unwrap(o) >> \o WalkNext(sm, StorageMap_next(sm, Unwrap(o)), n - 1)

\* The traversal of a linked map; one step more than it has items, so that a
\* chain that does not end shows as a sequence too long.
Traversal(sm) == WalkNext(sm, StorageMap_first(sm), Cardinality(DOMAIN sm.map) + 1)

\* last(), prev(last()), ... of a linked map, for at most n steps.
RECURSIVE WalkPrev(_, _, _)
WalkPrev(sm, o, n) ==
    IF IsNone(o) \/ n = 0 THEN << >>
    ELSE << Unwrap(o) >> \o WalkPrev(sm, StorageMap_prev(sm, Unwrap(o)), n - 1)

\* The traversal of a linked map from its end, one step more than it has
\* items.
TraversalBack(sm) == WalkPrev(sm, StorageMap_last(sm), Cardinality(DOMAIN sm.map) + 1)

\* s read from the back.
Reverse(s) == [i \in 1 .. Len(s) |-> s[Len(s) + 1 - i]]

\* s without the element x.
Without(s, x) == SelectSeq(s, LAMBDA y : y # x)

\* The elements of a sequence.
Range(s) == { s[i] : i \in DOMAIN s }

\* TestcaseStorage::insert_inner_with_id called as enable and disable call it,
\* for an id that is in neither map at that moment, but with any id: the
\* function is the one that has to turn an id from the future down.
InsertInnerWithId(tc, is_disabled, id) ==
    /\ id \notin LiveIds(storage)
    /\ LET r == insert_inner_with_id(storage, tc, is_disabled, id)
           ok == r.res = "Ok"
       IN  /\ storage' = r.st
           /\ call' = Call("insert_inner_with_id", Some(id), StatusOf(id),
                           IF r.panic THEN "Panic" ELSE r.res, None)
           /\ status' = IF ok THEN MapInsert(status, id,
                                     IF is_disabled THEN "disabled" ELSE "enabled")
                        ELSE status
           /\ given' = IF ok THEN MapInsert(given, id, tc) ELSE given
    /\ storage_btreemap'
         = insert_inner_with_id_btreemap(storage_btreemap, tc, is_disabled, id).st
    /\ UNCHANGED current
    /\ UNCHANGED << borrow, hook_chain, strcmp_call, keys_call >>

\* The storage driven by insertions, removals and reinsertions under a given id.
NextInsertWithId ==
    \/ \E tc \in Testcases : storage.progressive_id < MaxWithIds /\ Add(tc)
    \/ \E tc \in Testcases : storage.progressive_id < MaxWithIds /\ AddDisabled(tc)
    \/ \E id \in 0 .. MaxWithIds : Remove(id)
    \/ \E tc \in Testcases, is_disabled \in BOOLEAN, id \in 0 .. MaxWithIds :
          InsertInnerWithId(tc, is_disabled, id)

SpecInsertWithId == Init /\ [][NextInsertWithId]_vars

\* The borrow flag of the testcase stored under id.
FlagOf(id) == IF id \in DOMAIN borrow THEN borrow[id] ELSE 0

\* borrow with the flag of id set to f; unused flags are not kept.
WithFlag(id, f) == IF f = 0 THEN MapRemove(borrow, id) ELSE MapInsert(borrow, id, f)

\* corpus.testcase(id): get(id)?.borrow(); the Ref returned stays alive.
HasTestcase_testcase(id) ==
    /\ FlagOf(id) < MaxBorrows
    /\ LET g == Corpus_get(storage, id)
           r == RefCell_borrow(FlagOf(id))
       IN  IF g.res # "Ok"
           THEN /\ call' = Call("testcase", Some(id), StatusOf(id), g.res, None)
                /\ borrow' = borrow
           ELSE IF r.panic
           THEN /\ call' = Call("testcase", Some(id), StatusOf(id), "Panic", None)
                /\ borrow' = borrow
           ELSE /\ call' = Call("testcase", Some(id), StatusOf(id), "Ok", g.ret)
                /\ borrow' = WithFlag(id, r.flag)
    /\ UNCHANGED << storage, storage_btreemap, current, status, given >>
    /\ UNCHANGED << hook_chain, strcmp_call, keys_call >>

\* testcase_mut that looks the id up in both partitions.
HasTestcase_testcase_mut_from_all(id) ==
    /\ LET g == Corpus_get_from_all(storage, id)
           r == RefCell_borrow_mut(FlagOf(id))
       IN  IF g.res # "Ok"
           THEN /\ call' = Call("testcase_mut", Some(id), StatusOf(id), g.res, None)
                /\ borrow' = borrow
           ELSE IF r.panic
           THEN /\ call' = Call("testcase_mut", Some(id), StatusOf(id), "Panic", None)
                /\ borrow' = borrow
           ELSE /\ call' = Call("testcase_mut", Some(id), StatusOf(id), "Ok", g.ret)
                /\ borrow' = WithFlag(id, r.flag)
    /\ UNCHANGED << storage, storage_btreemap, current, status, given >>
    /\ UNCHANGED << hook_chain, strcmp_call, keys_call >>

\* corpus.testcase_mut(id): get(id)?.borrow_mut(); the RefMut returned stays
\* alive.
HasTestcase_testcase_mut(id) ==
    /\ LET g == Corpus_get(storage, id)
           r == RefCell_borrow_mut(FlagOf(id))
       IN  IF g.res # "Ok"
           THEN /\ call' = Call("testcase_mut", Some(id), StatusOf(id), g.res, None)
                /\ borrow' = borrow
           ELSE IF r.panic
           THEN /\ call' = Call("testcase_mut", Some(id), StatusOf(id), "Panic", None)
                /\ borrow' = borrow
           ELSE /\ call' = Call("testcase_mut", Some(id), StatusOf(id), "Ok", g.ret)
                /\ borrow' = WithFlag(id, r.flag)
    /\ UNCHANGED << storage, storage_btreemap, current, status, given >>
    /\ UNCHANGED << hook_chain, strcmp_call, keys_call >>

\* A Ref of id goes out of scope.
DropRef(id) ==
    /\ FlagOf(id) > 0
    /\ borrow' = WithFlag(id, Ref_drop(FlagOf(id)))
    /\ call' = Call("drop_ref", Some(id), StatusOf(id), "Ok", None)
    /\ UNCHANGED << storage, storage_btreemap, current, status, given >>
    /\ UNCHANGED << hook_chain, strcmp_call, keys_call >>

\* The RefMut of id goes out of scope.
DropRefMut(id) ==
    /\ FlagOf(id) < 0
    /\ borrow' = WithFlag(id, RefMut_drop(FlagOf(id)))
    /\ call' = Call("drop_ref_mut", Some(id), StatusOf(id), "Ok", None)
    /\ UNCHANGED << storage, storage_btreemap, current, status, given >>
    /\ UNCHANGED << hook_chain, strcmp_call, keys_call >>

\* The corpus with a caller that borrows testcases.  Ref and RefMut borrow
\* the corpus (&self), so the &mut self operations are called only while no
\* borrow is alive.
NextBorrow ==
    \/ \E tc \in Testcases :
          borrow = << >> /\ storage.progressive_id < MaxBorrowIds /\ Add(tc)
    \/ \E tc \in Testcases :
          borrow = << >> /\ storage.progressive_id < MaxBorrowIds /\ AddDisabled(tc)
    \/ \E id \in 0 .. MaxBorrowIds : borrow = << >> /\ Remove(id)
    \/ \E id \in 0 .. MaxBorrowIds : borrow = << >> /\ Disable(id)
    \/ \E id \in 0 .. MaxBorrowIds : borrow = << >> /\ Enable(id)
    \/ \E id \in 0 .. MaxBorrowIds : HasTestcase_testcase(id)
    \/ \E id \in 0 .. MaxBorrowIds : HasTestcase_testcase_mut(id)
    \/ \E id \in 0 .. MaxBorrowIds : DropRef(id)
    \/ \E id \in 0 .. MaxBorrowIds : DropRefMut(id)

SpecBorrow == Init /\ [][NextBorrow]_vars


\* ---------------------------------------------------- the queue scheduler

\* The queue policy's choice: next(current), or first() when current is
\* empty or next(current) is None.
QueueStep(st, cur) ==
    IF IsSome(cur) /\ IsSome(Corpus_next(st, Unwrap(cur)))
    THEN Corpus_next(st, Unwrap(cur))
    ELSE Corpus_first(st)

\* The ids n steps of the queue policy make current, from cur, on a corpus
\* that is not modified meanwhile.
RECURSIVE QueueWalk(_, _, _)
QueueWalk(st, cur, n) ==
    IF n = 0 THEN << >>
    ELSE LET c == QueueStep(st, cur)
         IN  << c >> \o QueueWalk(st, c, n - 1)

\* One step of the scheduler on a corpus that is not empty: it stores its
\* choice through current_mut.
QueueNext ==
    /\ Corpus_count(storage) > 0
    /\ current' = QueueStep(storage, current)
    /\ call' = Call("queue_next", current, "-", "Ok", QueueStep(storage, current))
    /\ UNCHANGED << storage, storage_btreemap, status, given, borrow >>
    /\ UNCHANGED << hook_chain, strcmp_call, keys_call >>

\* The corpus with the queue scheduler as the one that moves the cursor; the
\* scheduler does not look at payloads, one testcase stands for all.
NextQueue ==
    \/ \E tc \in {Testcase(<< 1, 2, 3 >>)} : Add(tc)
    \/ \E tc \in {Testcase(<< 1, 2, 3 >>)} : AddDisabled(tc)
    \/ \E id \in Ids : Remove(id)
    \/ \E id \in Ids : Disable(id)
    \/ \E id \in Ids : Enable(id)
    \/ QueueNext

SpecQueue == Init /\ [][NextQueue]_vars

\* ------------------------------------------------- event manager hooks

\* How many hooks a tuple holds at most.
MaxHooks == 2
\* Result<T, Error>
Ok(v) == [tag |-> "Ok", val |-> << v >>, err |-> << >>]
Err(e) == [tag |-> "Err", val |-> << >>, err |-> << e >>]
IsErr(r) == r.tag = "Err"
Unit == "()"

\* An implementation of EventManagerHook, by what its methods do when they
\* are called: return true, false or (), or fail.  on_fire and post_exec
\* have defaults, Ok(()) and Ok(true), which are among the values drawn.
HookImpls ==
    [pre_exec  : { "true", "false", "error" },
     on_fire   : { "unit", "error" },
     post_exec : { "true", "false", "error" }]

\* What a method that does o returns in the hook at place id; a hook that
\* fails returns an error of its own.
Returned(o, id) ==
    CASE o = "true"  -> Ok(TRUE)
      [] o = "false" -> Ok(FALSE)
      [] o = "unit"  -> Ok(Unit)
      [] o = "error" -> Err(id)

\* The tuples (h1, (h2, ... ())) as sequences; each hook carries its place in
\* the tuple, which is what it leaves in the state when one of its methods
\* runs.
HookTuples ==
    UNION { { [i \in 1 .. n |->
                 [id        |-> i,
                  pre_exec  |-> Returned(f[i].pre_exec, i),
                  on_fire   |-> Returned(f[i].on_fire, i),
                  post_exec |-> Returned(f[i].post_exec, i)]] : f \in [1 .. n -> HookImpls] }
            : n \in 0 .. MaxHooks }

\* EventManagerHook::pre_exec, on_fire, post_exec of one hook: the hook runs
\* on the state and returns.
Hook_pre_exec(h, state) == [state |-> Append(state, h.id), res |-> h.pre_exec]
Hook_on_fire(h, state) == [state |-> Append(state, h.id), res |-> h.on_fire]
Hook_post_exec(h, state) == [state |-> Append(state, h.id), res |-> h.post_exec]

\* pre_exec_all with a conjunction that skips the tail once the head said
\* false.
RECURSIVE pre_exec_all_short_circuit(_, _)
pre_exec_all_short_circuit(hooks, state) ==
    IF hooks = << >> THEN [state |-> state, res |-> Ok(TRUE)]
    ELSE LET first == Hook_pre_exec(Head(hooks), state)
         IN  IF IsErr(first.res) THEN first
             ELSE IF ~first.res.val[1] THEN [state |-> first.state, res |-> Ok(FALSE)]
             ELSE pre_exec_all_short_circuit(Tail(hooks), first.state)

\* EventManagerHooksTuple::pre_exec_all, for () and for (Head, Tail)
RECURSIVE pre_exec_all(_, _)
pre_exec_all(hooks, state) ==
    IF hooks = << >> THEN [state |-> state, res |-> Ok(TRUE)]
    ELSE LET first == Hook_pre_exec(Head(hooks), state)
         IN  IF IsErr(first.res) THEN first
             ELSE LET second == pre_exec_all(Tail(hooks), first.state)
                  IN  IF IsErr(second.res) THEN second
                      ELSE [state |-> second.state,
                            res   |-> Ok(first.res.val[1] /\ second.res.val[1])]

\* on_fire_all that goes on to the tail after the head failed.
RECURSIVE on_fire_all_continuing(_, _)
on_fire_all_continuing(hooks, state) ==
    IF hooks = << >> THEN [state |-> state, res |-> Ok(Unit)]
    ELSE LET first == Hook_on_fire(Head(hooks), state)
             rest  == on_fire_all_continuing(Tail(hooks), first.state)
         IN  IF IsErr(first.res) THEN [state |-> rest.state, res |-> first.res]
             ELSE rest

\* EventManagerHooksTuple::on_fire_all, for () and for (Head, Tail)
RECURSIVE on_fire_all(_, _)
on_fire_all(hooks, state) ==
    IF hooks = << >> THEN [state |-> state, res |-> Ok(Unit)]
    ELSE LET first == Hook_on_fire(Head(hooks), state)
         IN  IF IsErr(first.res) THEN first
             ELSE on_fire_all(Tail(hooks), first.state)

\* EventManagerHooksTuple::post_exec_all, for () and for (Head, Tail)
RECURSIVE post_exec_all(_, _)
post_exec_all(hooks, state) ==
    IF hooks = << >> THEN [state |-> state, res |-> Ok(TRUE)]
    ELSE LET first == Hook_post_exec(Head(hooks), state)
         IN  IF IsErr(first.res) THEN first
             ELSE LET second == post_exec_all(Tail(hooks), first.state)
                  IN  IF IsErr(second.res) THEN second
                      ELSE [state |-> second.state,
                            res   |-> Ok(first.res.val[1] /\ second.res.val[1])]

\* An event manager is built with a hook tuple; nothing has been called yet.
InitHooks ==
    /\ storage = TestcaseStorage_new
    /\ storage_btreemap = TestcaseStorage_new_btreemap
    /\ current = None
    /\ call = Call("new", None, "-", "Ok", None)
    /\ status = << >>
    /\ given = << >>
    /\ borrow = << >>
    /\ hook_chain \in { [hooks |-> t, op |-> "none", invoked |-> << >>,
                         res |-> NoHookChain.res] : t \in HookTuples }
    /\ strcmp_call = NoStrcmpCall
    /\ keys_call = NoKeysCall

\* The event manager calls pre_exec_all before it handles an event; the
\* state the hooks run on starts each call with nothing recorded.
PreExecAll ==
    /\ LET r == pre_exec_all(hook_chain.hooks, << >>)
       IN  hook_chain' = [hooks   |-> hook_chain.hooks, op |-> "pre_exec_all",
                          invoked |-> r.state, res |-> r.res]
    /\ UNCHANGED << storage, storage_btreemap, current, call, status, given, borrow >>
    /\ UNCHANGED << strcmp_call, keys_call >>

OnFireAll ==
    /\ LET r == on_fire_all(hook_chain.hooks, << >>)
       IN  hook_chain' = [hooks   |-> hook_chain.hooks, op |-> "on_fire_all",
                          invoked |-> r.state, res |-> r.res]
    /\ UNCHANGED << storage, storage_btreemap, current, call, status, given, borrow >>
    /\ UNCHANGED << strcmp_call, keys_call >>

PostExecAll ==
    /\ LET r == post_exec_all(hook_chain.hooks, << >>)
       IN  hook_chain' = [hooks   |-> hook_chain.hooks, op |-> "post_exec_all",
                          invoked |-> r.state, res |-> r.res]
    /\ UNCHANGED << storage, storage_btreemap, current, call, status, given, borrow >>
    /\ UNCHANGED << strcmp_call, keys_call >>

NextHooks ==
    \/ PreExecAll
    \/ OnFireAll
    \/ PostExecAll

SpecHooks == InitHooks /\ [][NextHooks]_vars

\* ------------------------------------------------------- patch_strcmp

\* How many bytes a string has at most, before its NUL.
MaxStrLen == 2
\* The bytes the strings are made of: a low one, the largest that is
\* positive as a signed char, and the smallest that is negative as one.
StrBytes == { 1, 127, 128 }

\* *const c_char: null, or a pointer to the memory of a NUL-terminated
\* string, byte by byte.
null == None
CStrings ==
    UNION { { Some(str \o << 0 >>) : str \in [1 .. n -> StrBytes] } : n \in 0 .. MaxStrLen }
Pointers == { null } \cup CStrings

\* while *p.add(len) != 0 { len += 1 }
RECURSIVE ScanLen(_, _)
ScanLen(mem, len) == IF mem[len + 1] # 0 THEN ScanLen(mem, len + 1) ELSE len

\* from_raw_parts(p as *const u8, len)
from_raw_parts(mem, len) == SubSeq(mem, 1, len)

\* A byte read as a signed char.
as_i8(b) == IF b >= 128 THEN b - 256 ELSE b

\* A comparison of the bytes as signed chars.
u8_cmp_signed(a, b) ==
    IF as_i8(a) < as_i8(b) THEN "Less" ELSE IF as_i8(a) > as_i8(b) THEN "Greater" ELSE "Equal"

\* u8::cmp
u8_cmp(a, b) == IF a < b THEN "Less" ELSE IF a > b THEN "Greater" ELSE "Equal"

\* for i in 0..cs_len.max(ct_len) { ... } 0
RECURSIVE CompareFrom(_, _, _)
CompareFrom(slice1, slice2, i) ==
    LET cs_len == Len(slice1)
        ct_len == Len(slice2)
        max    == IF cs_len >= ct_len THEN cs_len ELSE ct_len
    IN  IF i >= max THEN 0
        ELSE IF i >= cs_len THEN -1
        ELSE IF i >= ct_len THEN 1
        ELSE CASE u8_cmp(slice1[i + 1], slice2[i + 1]) = "Equal"   -> CompareFrom(slice1, slice2, i + 1)
               [] u8_cmp(slice1[i + 1], slice2[i + 1]) = "Less"    -> -1
               [] u8_cmp(slice1[i + 1], slice2[i + 1]) = "Greater" -> 1

\* asan_panic(msg) does not return: the call ends in it, with no byte read and
\* nothing returned.
asan_panic(msg) == [panic |-> msg, read |-> FALSE, ret |-> 0]

\* strcmp (patch_strcmp)
strcmp(cs, ct) ==
    IF cs = null THEN asan_panic("strcmp - cs is null")
    ELSE IF ct = null THEN asan_panic("strcmp - ct is null")
    ELSE LET cs_len == ScanLen(Unwrap(cs), 0)
             ct_len == ScanLen(Unwrap(ct), 0)
             slice1 == from_raw_parts(Unwrap(cs), cs_len)
             slice2 == from_raw_parts(Unwrap(ct), ct_len)
         IN  [panic |-> "none", read |-> TRUE, ret |-> CompareFrom(slice1, slice2, 0)]

\* A caller holds two pointers.
InitStrcmp ==
    /\ storage = TestcaseStorage_new
    /\ storage_btreemap = TestcaseStorage_new_btreemap
    /\ current = None
    /\ call = Call("new", None, "-", "Ok", None)
    /\ status = << >>
    /\ given = << >>
    /\ borrow = << >>
    /\ hook_chain = NoHookChain
    /\ strcmp_call \in { [cs |-> cs, ct |-> ct, done |-> FALSE, panic |-> "none",
                          read |-> FALSE, ret |-> 0] : cs \in Pointers, ct \in Pointers }
    /\ keys_call = NoKeysCall

\* The caller calls strcmp on them.
Strcmp ==
    /\ ~strcmp_call.done
    /\ LET r == strcmp(strcmp_call.cs, strcmp_call.ct)
       IN  strcmp_call' = [cs |-> strcmp_call.cs, ct |-> strcmp_call.ct, done |-> TRUE,
                           panic |-> r.panic, read |-> r.read, ret |-> r.ret]
    /\ UNCHANGED << storage, storage_btreemap, current, call, status, given, borrow >>
    /\ UNCHANGED << hook_chain, keys_call >>

NextStrcmp == Strcmp

SpecStrcmp == InitStrcmp /\ [][NextStrcmp]_vars

\* ------------------------------------------- insert_key and remove_key

\* The largest id in the keys vectors insert_key and remove_key are run on.
MaxKeyId == 3
KeyIds == 0 .. MaxKeyId

\* The keys vectors a map can hold: the code keeps them strictly ascending.
KeysVectors == { SortedSeq(S) : S \in SUBSET KeyIds }

\* A map's keys vector, before any call.
InitKeys ==
    /\ storage = TestcaseStorage_new
    /\ storage_btreemap = TestcaseStorage_new_btreemap
    /\ current = None
    /\ call = Call("new", None, "-", "Ok", None)
    /\ status = << >>
    /\ given = << >>
    /\ borrow = << >>
    /\ hook_chain = NoHookChain
    /\ strcmp_call = NoStrcmpCall
    /\ keys_call \in { [keys |-> k, op |-> "none", id |-> 0, before |-> k] : k \in KeysVectors }

InsertKey(id) ==
    /\ keys_call' = [keys |-> insert_key(keys_call.keys, id), op |-> "insert_key",
                     id |-> id, before |-> keys_call.keys]
    /\ UNCHANGED << storage, storage_btreemap, current, call, status, given, borrow >>
    /\ UNCHANGED << hook_chain, strcmp_call >>

RemoveKey(id) ==
    /\ keys_call' = [keys |-> remove_key(keys_call.keys, id), op |-> "remove_key",
                     id |-> id, before |-> keys_call.keys]
    /\ UNCHANGED << storage, storage_btreemap, current, call, status, given, borrow >>
    /\ UNCHANGED << hook_chain, strcmp_call >>

NextKeys ==
    \/ \E id \in KeyIds : InsertKey(id)
    \/ \E id \in KeyIds : RemoveKey(id)

SpecKeys == InitKeys /\ [][NextKeys]_vars

\* ------------------------------------------------------------ the claims

\* C1 Identity uniqueness: the id add/add_disabled returns is held by no
\* testcase in use at the moment of the call, in either partition, and after
\* every call no id is stored in both partitions and the two maps hold as
\* many testcases as there are ids in use: no two testcases in use share an id.
C1_IdentityUniqueness ==
    [][ /\ call'.op \in {"add", "add_disabled"} =>
              /\ Unwrap(call'.ret) \notin LiveIds(storage)
              /\ StatusOf(Unwrap(call'.ret)) \notin {"enabled", "disabled"}
        /\ EnabledIds(storage') \cap DisabledIds(storage') = {}
        /\ Cardinality(EnabledIds(storage')) + Cardinality(DisabledIds(storage'))
             = Cardinality({ id \in DOMAIN status' : status'[id] # "removed" })
      ]_vars

\* An add that returns id 2 after id 0 went to the disabled partition and
\* came back behind id 1.
C1_Witness ==
    /\ call.op = "add"
    /\ call.ret = Some(2)
    /\ Traversal(storage.enabled) = << 1, 0, 2 >>

\* C2 Partition disjointness: count() + count_disabled() = count_all(), and
\* no id that get() finds is stored in the disabled map as well.
C2_PartitionDisjointness ==
    /\ Corpus_count(storage) + Corpus_count_disabled(storage) = Corpus_count_all(storage)
    /\ \A id \in Ids :
          ~(Corpus_get(storage, id).res = "Ok" /\ IsSome(StorageMap_get(storage.disabled, id)))

\* The tests' state after disable(1): two enabled, one disabled.
C2_Witness ==
    /\ call.op = "disable"
    /\ call.res = "Ok"
    /\ Corpus_count(storage) = 2
    /\ Corpus_count_disabled(storage) = 1

\* C3 Navigation order under disable/enable (linked variant): a successful
\* disable(id) takes id out of the enabled first()/next() traversal, leaves
\* the others in their order and puts id last in the disabled traversal; a
\* successful enable(id) takes id out of the disabled traversal and puts it
\* last in the enabled one, last() = id.
C3_NavigationOrder ==
    [][ /\ (call'.op = "disable" /\ call'.res = "Ok") =>
              /\ Unwrap(call'.id) \in Range(Traversal(storage.enabled))
              /\ Traversal(storage'.enabled)
                   = Without(Traversal(storage.enabled), Unwrap(call'.id))
              /\ Traversal(storage'.disabled) = Traversal(storage.disabled) \o call'.id
              /\ StorageMap_last(storage'.disabled) = call'.id
        /\ (call'.op = "enable" /\ call'.res = "Ok") =>
              /\ Unwrap(call'.id) \in Range(Traversal(storage.disabled))
              /\ Traversal(storage'.disabled)
                   = Without(Traversal(storage.disabled), Unwrap(call'.id))
              /\ Traversal(storage'.enabled) = Traversal(storage.enabled) \o call'.id
              /\ Corpus_last(storage') = call'.id
      ]_vars

\* Ids 0, 1, 2 added in this order, 1 disabled and enabled again: 0, 2, 1.
C3_Witness ==
    /\ call.op = "enable"
    /\ call.res = "Ok"
    /\ call.id = Some(1)
    /\ Traversal(storage.enabled) = << 0, 2, 1 >>

\* C4 Variant equivalence: after the same calls the linked variant and the
\* corpus_btreemap variant answer first(), last(), next(id), prev(id), get(id),
\* count() and nth(n) alike.
C4_VariantEquivalence ==
    /\ Corpus_first(storage) = Corpus_first_btreemap(storage_btreemap)
    /\ Corpus_last(storage) = Corpus_last_btreemap(storage_btreemap)
    /\ \A id \in Ids :
          /\ Corpus_next(storage, id) = Corpus_next_btreemap(storage_btreemap, id)
          /\ Corpus_prev(storage, id) = Corpus_prev_btreemap(storage_btreemap, id)
          /\ Corpus_get(storage, id) = Corpus_get_btreemap(storage_btreemap, id)
    /\ Corpus_count(storage) = Corpus_count(storage_btreemap)
    /\ \A n \in 0 .. MaxIds :
          Corpus_nth(storage, n) = Corpus_nth_btreemap(storage_btreemap, n)

\* C5 Enable/disable state machine: disable(id) succeeds exactly when id is
\* enabled, and then id is in the disabled map and not in the enabled one;
\* enable(id) succeeds exactly when id is disabled, and then id is in the
\* enabled map and not in the disabled one; every other call fails with
\* KeyNotFound.
C5_EnableDisableStateMachine ==
    [][ /\ call'.op = "disable" =>
              /\ (call'.res = "Ok") <=> (StatusOf(Unwrap(call'.id)) = "enabled")
              /\ (call'.res = "Ok") <=> (Unwrap(call'.id) \in EnabledIds(storage))
              /\ call'.res = "Ok" =>
                    /\ Unwrap(call'.id) \in DisabledIds(storage')
                    /\ Unwrap(call'.id) \notin EnabledIds(storage')
              /\ call'.res # "Ok" => call'.res = "KeyNotFound"
        /\ call'.op = "enable" =>
              /\ (call'.res = "Ok") <=> (StatusOf(Unwrap(call'.id)) = "disabled")
              /\ (call'.res = "Ok") <=> (Unwrap(call'.id) \in DisabledIds(storage))
              /\ call'.res = "Ok" =>
                    /\ Unwrap(call'.id) \in EnabledIds(storage')
                    /\ Unwrap(call'.id) \notin DisabledIds(storage')
              /\ call'.res # "Ok" => call'.res = "KeyNotFound"
      ]_vars

\* disable(id) of an id that is disabled already.
C5_Witness ==
    /\ call.op = "disable"
    /\ call.was = "disabled"
    /\ call.res = "KeyNotFound"
    /\ Unwrap(call.id) \in DisabledIds(storage)

\* C6 Round-trip removal: remove(id) of an id in use succeeds and returns the
\* testcase last handed in for id, the one add(tc) stored when no replace of
\* id came between, whatever other calls did; afterwards get(id) and
\* get_from_all(id) fail with KeyNotFound.
C6_RoundTripRemoval ==
    [][ (call'.op = "remove" /\ Unwrap(call'.id) \in DOMAIN given) =>
          /\ call'.res = "Ok"
          /\ IsSome(call'.ret)
          /\ Unwrap(call'.ret).input = given[Unwrap(call'.id)].input
          /\ Corpus_get(storage', Unwrap(call'.id)).res = "KeyNotFound"
          /\ Corpus_get_from_all(storage', Unwrap(call'.id)).res = "KeyNotFound"
      ]_vars

\* remove(0) returns the first payload after ids 1 and 2 were issued and one
\* of them sits in the disabled partition.
C6_Witness ==
    /\ call.op = "remove"
    /\ call.id = Some(0)
    /\ call.was = "enabled"
    /\ call.res = "Ok"
    /\ call.ret = Some(Testcase(<< 1, 2, 3 >>))
    /\ storage.progressive_id = 3
    /\ Corpus_count_disabled(storage) = 1
    /\ Corpus_get(storage, 0).res = "KeyNotFound"

\* C7 remove(id) considers both partitions: it succeeds exactly when id is in
\* use, enabled or disabled, returns the testcase stored under id, takes one
\* off the count of the partition that held id and leaves the other count;
\* otherwise it fails with KeyNotFound.
C7_RemoveBothPartitions ==
    [][ call'.op = "remove" =>
          /\ (call'.res = "Ok") <=> (StatusOf(Unwrap(call'.id)) \in {"enabled", "disabled"})
          /\ (call'.res = "Ok") <=> (Unwrap(call'.id) \in LiveIds(storage))
          /\ call'.res # "Ok" => call'.res = "KeyNotFound"
          /\ call'.res = "Ok" =>
                /\ call'.ret = Corpus_get_from_all(storage, Unwrap(call'.id)).ret
                /\ Unwrap(call'.id) \notin LiveIds(storage')
                /\ IF StatusOf(Unwrap(call'.id)) = "enabled"
                   THEN /\ Corpus_count(storage') = Corpus_count(storage) - 1
                        /\ Corpus_count_disabled(storage') = Corpus_count_disabled(storage)
                   ELSE /\ Corpus_count(storage') = Corpus_count(storage)
                        /\ Corpus_count_disabled(storage')
                             = Corpus_count_disabled(storage) - 1
      ]_vars

\* The tests' disable(0) then remove(0): the payload [1,2,3] comes back and
\* two enabled, no disabled testcases are left.
C7_Witness ==
    /\ call.op = "remove"
    /\ call.id = Some(0)
    /\ call.was = "disabled"
    /\ call.res = "Ok"
    /\ call.ret = Some(Testcase(<< 1, 2, 3 >>))
    /\ Corpus_count(storage) = 2
    /\ Corpus_count_disabled(storage) = 0

\* C8 get(id) succeeds exactly when id is enabled; for a disabled, a removed
\* and a never issued id it fails with KeyNotFound.
C8_GetEnabledOnly ==
    \A id \in Ids :
        /\ (Corpus_get(storage, id).res = "Ok") <=> (StatusOf(id) = "enabled")
        /\ StatusOf(id) # "enabled" => Corpus_get(storage, id).res = "KeyNotFound"

\* After disable(1) of three enabled ids get(1) fails; some id was removed
\* and MaxIds was never issued.
C8_Witness ==
    /\ call.op = "disable"
    /\ call.res = "Ok"
    /\ Corpus_get(storage, Unwrap(call.id)).res = "KeyNotFound"
    /\ \E id \in Ids : StatusOf(id) = "removed" /\ Corpus_get(storage, id).res = "KeyNotFound"
    /\ \E id \in Ids : StatusOf(id) = "enabled"
    /\ StatusOf(MaxIds) = "never"

\* C9 get_from_all(id) succeeds exactly when id is in use, enabled or
\* disabled, and returns the testcase stored under id, the one last handed in
\* for it; for a removed and a never issued id it fails with KeyNotFound.
C9_GetFromAll ==
    \A id \in Ids :
        /\ (Corpus_get_from_all(storage, id).res = "Ok")
             <=> (StatusOf(id) \in {"enabled", "disabled"})
        /\ StatusOf(id) \in {"enabled", "disabled"} =>
              Corpus_get_from_all(storage, id).ret = Some(given[id])
        /\ StatusOf(id) \notin {"enabled", "disabled"} =>
              Corpus_get_from_all(storage, id).res = "KeyNotFound"

\* An enabled, a disabled and a removed id side by side.
C9_Witness ==
    /\ \E id \in Ids : StatusOf(id) = "enabled" /\ Corpus_get_from_all(storage, id).res = "Ok"
    /\ \E id \in Ids :
          /\ StatusOf(id) = "disabled"
          /\ Corpus_get(storage, id).res = "KeyNotFound"
          /\ Corpus_get_from_all(storage, id).res = "Ok"
    /\ \E id \in Ids :
          StatusOf(id) = "removed" /\ Corpus_get_from_all(storage, id).res = "KeyNotFound"

\* C10 replace(id, tc) fails with KeyNotFound whenever id is not enabled, a
\* disabled id included, and then the disabled partition, and with it the
\* testcase stored under a disabled id, is as before.
C10_ReplaceEnabledOnly ==
    [][ (call'.op = "replace" /\ StatusOf(Unwrap(call'.id)) # "enabled") =>
          /\ call'.res = "KeyNotFound"
          /\ storage'.disabled = storage.disabled
          /\ Corpus_get_from_all(storage', Unwrap(call'.id))
               = Corpus_get_from_all(storage, Unwrap(call'.id))
      ]_vars

\* replace of a disabled id, whose testcase is still the one handed in.
C10_Witness ==
    /\ call.op = "replace"
    /\ call.was = "disabled"
    /\ call.res = "KeyNotFound"
    /\ Corpus_get_from_all(storage, Unwrap(call.id)).ret = Some(given[Unwrap(call.id)])

\* C11 A replace(id, tc) that succeeds returns the testcase stored under id
\* until then, get(id) yields tc afterwards, and nothing else changes: both id
\* sets, the counts, keys, the order first/next/prev/last walk, peek_free_id
\* and current are as before, and so is every other stored testcase.
C11_ReplaceEffect ==
    [][ (call'.op = "replace" /\ call'.res = "Ok") =>
          LET id == Unwrap(call'.id)
          IN  /\ call'.ret = Corpus_get(storage, id).ret
              /\ Corpus_get(storage', id).ret = Some(given'[id])
              /\ EnabledIds(storage') = EnabledIds(storage)
              /\ DisabledIds(storage') = DisabledIds(storage)
              /\ Corpus_count(storage') = Corpus_count(storage)
              /\ Corpus_count_disabled(storage') = Corpus_count_disabled(storage)
              /\ Corpus_count_all(storage') = Corpus_count_all(storage)
              /\ storage'.enabled.keys = storage.enabled.keys
              /\ storage'.disabled.keys = storage.disabled.keys
              /\ Corpus_first(storage') = Corpus_first(storage)
              /\ Corpus_last(storage') = Corpus_last(storage)
              /\ \A x \in Ids :
                    /\ Corpus_next(storage', x) = Corpus_next(storage, x)
                    /\ Corpus_prev(storage', x) = Corpus_prev(storage, x)
                    /\ x # id =>
                         Corpus_get_from_all(storage', x) = Corpus_get_from_all(storage, x)
              /\ Corpus_peek_free_id(storage') = Corpus_peek_free_id(storage)
              /\ current' = current
              /\ storage_btreemap'
                   = [storage_btreemap EXCEPT !.enabled.map[id] = given'[id]]
      ]_vars

\* replace has put a different testcase under the id the cursor is on, the
\* second of two enabled ids.
C11_Witness ==
    /\ call.op = "replace"
    /\ call.res = "Ok"
    /\ call.ret # Some(given[Unwrap(call.id)])
    /\ current = call.id
    /\ IsSome(Corpus_prev(storage, Unwrap(call.id)))

\* C12 peek_free_id() tells the id the next add or add_disabled returns: an
\* add/add_disabled returns what a peek_free_id() right before it would, and
\* returns what the peek_free_id() call right before it did. peek_free_id()
\* itself changes nothing of the corpus.
C12_PeekFreeIdPredicts ==
    [][ /\ (call'.op \in {"add", "add_disabled"}) =>
              /\ call'.res = "Ok"
              /\ call'.ret = Some(Corpus_peek_free_id(storage))
              /\ call.op = "peek_free_id" => call'.ret = call.ret
        /\ (call'.op = "peek_free_id") =>
              /\ storage' = storage
              /\ storage_btreemap' = storage_btreemap
              /\ current' = current
              /\ Corpus_peek_free_id(storage') = Unwrap(call'.ret)
      ]_vars

\* peek_free_id() has told an id that is more than the number of testcases
\* stored, one of them having been removed.
C12_Witness ==
    /\ call.op = "peek_free_id"
    /\ Unwrap(call.ret) > Corpus_count_all(storage)
    /\ Corpus_count_all(storage) > 0

\* C13 Ids are never reused and grow strictly: the id add/add_disabled
\* returns is greater than every id issued before, those removed since
\* included.
C13_IdsNeverReused ==
    [][ (call'.op \in {"add", "add_disabled"}) =>
          /\ IsSome(call'.ret)
          /\ \A x \in DOMAIN status : x < Unwrap(call'.ret)
      ]_vars

\* An id was issued while a lower id, removed before, was free again.
C13_Witness ==
    /\ call.op \in {"add", "add_disabled"}
    /\ \E x \in DOMAIN status :
          /\ x < Unwrap(call.ret)
          /\ status[x] = "removed"
          /\ x \notin LiveIds(storage)

\* C14 progressive_id is above every id ever issued and above every id in
\* use, in either partition; the id peek_free_id() tells is therefore in
\* neither map.
C14_CounterAboveIds ==
    /\ \A id \in DOMAIN status : id < storage.progressive_id
    /\ \A id \in LiveIds(storage) : id < storage.progressive_id
    /\ \A id \in (DOMAIN storage_btreemap.enabled.map)
                   \cup (DOMAIN storage_btreemap.disabled.map) :
          id < storage_btreemap.progressive_id
    /\ Corpus_peek_free_id(storage) \notin LiveIds(storage)

\* Every id was handed out, the highest are gone again and id 0 was disabled
\* and enabled: the counter is well above the ids in use.
C14_Witness ==
    /\ storage.progressive_id = MaxIds
    /\ LiveIds(storage) = {0}
    /\ call.op = "enable"
    /\ call.res = "Ok"

\* C15 insert_inner_with_id(testcase, is_disabled, id) fails with IllegalState
\* for every id that is not below progressive_id, id = progressive_id
\* included, and then inserts nothing into either partition.
C15_InsertWithIdRejectsFuture ==
    [][ (/\ call'.op = "insert_inner_with_id"
         /\ Unwrap(call'.id) >= storage.progressive_id) =>
          /\ call'.res = "IllegalState"
          /\ storage' = storage
          /\ storage_btreemap' = storage_btreemap
      ]_vars

\* C16 Keys invariant: in every reachable state the keys of each partition
\* are strictly ascending, without duplicates, and are exactly the ids of the
\* partition's map, as many as the map has, also after enable/disable have
\* put an older id back; in both build variants.
C16_KeysInvariant ==
    \A sm \in {storage.enabled, storage.disabled,
               storage_btreemap.enabled, storage_btreemap.disabled} :
        /\ \A i \in 1 .. Len(sm.keys) - 1 : sm.keys[i] < sm.keys[i + 1]
        /\ Range(sm.keys) = DOMAIN sm.map
        /\ Len(sm.keys) = Cardinality(DOMAIN sm.map)

\* enable has put the oldest id back behind two newer ones: the list ends
\* with it, keys begin with it.
C16_Witness ==
    /\ call.op = "enable"
    /\ call.res = "Ok"
    /\ storage.enabled.keys = << 0, 1, 2 >>
    /\ Traversal(storage.enabled) = << 1, 2, 0 >>

\* C17 Linked-list invariant (linked variant): before and after every step
\* the items of each partition are one chain: first_id is the only item
\* without prev, last_id the only one without next, next from first_id visits
\* every id of the map once and ends at last_id, and first_id and last_id are
\* None exactly when the map is empty. A removal from a partition (remove,
\* and the removing half of disable/enable) of the head makes its successor
\* first_id, of the tail makes its predecessor last_id, and of an item in
\* between links predecessor and successor to each other.
C17_LinkedListInvariant ==
    [][ /\ \A sm \in {storage.enabled, storage.disabled,
                      storage'.enabled, storage'.disabled} :
              LET ids == DOMAIN sm.map
                  t == Traversal(sm)
              IN  /\ (ids = {}) <=> IsNone(sm.first_id)
                  /\ (ids = {}) <=> IsNone(sm.last_id)
                  /\ { id \in ids : IsNone(sm.map[id].prev) } = Range(sm.first_id)
                  /\ { id \in ids : IsNone(sm.map[id].next) } = Range(sm.last_id)
                  /\ Len(t) = Cardinality(ids)
                  /\ Range(t) = ids
                  /\ ids # {} => t[Len(t)] = Unwrap(sm.last_id)
        /\ (call'.op \in {"remove", "disable", "enable"} /\ call'.res = "Ok") =>
              LET id == Unwrap(call'.id)
                  from_disabled == call'.op = "enable"
                                     \/ (call'.op = "remove" /\ call'.was = "disabled")
                  old == Partition(storage, from_disabled)
                  new == Partition(storage', from_disabled)
                  p == old.map[id].prev
                  n == old.map[id].next
              IN  /\ id \in DOMAIN old.map
                  /\ Traversal(new) = Without(Traversal(old), id)
                  /\ IsNone(p) => new.first_id = n
                  /\ IsNone(n) => new.last_id = p
                  /\ IsSome(p) => new.first_id = old.first_id
                                    /\ new.map[Unwrap(p)].next = n
                  /\ IsSome(n) => new.last_id = old.last_id
                                    /\ new.map[Unwrap(n)].prev = p
      ]_vars

\* remove(1) has taken the item between 0 and 2 out of the enabled list, and
\* 0 and 2 are linked to each other.
C17_Witness ==
    /\ call.op = "remove"
    /\ call.res = "Ok"
    /\ call.id = Some(1)
    /\ Traversal(storage.enabled) = << 0, 2 >>
    /\ storage.enabled.map[0].next = Some(2)
    /\ storage.enabled.map[2].prev = Some(0)

C19_CursorValid ==
    IsNone(current) \/ Unwrap(current) \in EnabledIds(storage)

\* C19 amended: with such callers current() is empty or an id that was issued
\* and was enabled when it was stored. It is an enabled id right after
\* current_mut, and every operation keeps it one except a successful
\* remove(id) or disable(id) of the current id itself: that leaves current on
\* id, which is then not in the enabled partition.
C19_CursorValidUntilRemoved ==
    [][ LET takes_current ==
                /\ call'.op \in {"remove", "disable"}
                /\ call'.res = "Ok"
                /\ IsSome(current)
                /\ call'.id = current
        IN  /\ IsSome(current') => Unwrap(current') \in DOMAIN status'
            /\ (call'.op = "current_mut") =>
                  (IsNone(current') \/ Unwrap(current') \in EnabledIds(storage'))
            /\ ((IsNone(current) \/ Unwrap(current) \in EnabledIds(storage))
                  /\ ~takes_current) =>
                  (IsNone(current') \/ Unwrap(current') \in EnabledIds(storage'))
            /\ (takes_current /\ Unwrap(current) \in EnabledIds(storage)) =>
                  /\ current' = current
                  /\ Unwrap(current') \notin EnabledIds(storage')
      ]_vars

\* disable of the current id: the cursor is on a disabled id.
C19_Witness ==
    /\ call.op = "disable"
    /\ call.res = "Ok"
    /\ call.id = current
    /\ Unwrap(current) \in DisabledIds(storage)
    /\ Unwrap(current) \notin EnabledIds(storage)

\* C20 The corpus never validates or updates the cursor: a new corpus has
\* current empty; add, add_disabled, replace, remove, enable and disable,
\* whether they succeed or fail, leave current as it is, also when the id
\* they remove or disable is the current one; current changes through
\* current_mut only, to the value stored.
C20_CursorOnlyByCurrentMut ==
    [][ /\ (call.op = "new") => IsNone(current)
        /\ (call'.op # "current_mut") => current' = current
        /\ (call'.op = "current_mut") => current' = call'.id
        /\ (/\ call'.op \in {"remove", "disable"}
            /\ call'.res = "Ok"
            /\ call'.id = current) =>
              /\ current' = call'.id
              /\ Corpus_get(storage', Unwrap(current')).res = "KeyNotFound"
      ]_vars

\* remove of the current id: the cursor is still on it, and the id is in
\* neither partition.
C20_Witness ==
    /\ call.op = "remove"
    /\ call.res = "Ok"
    /\ call.id = current
    /\ Unwrap(current) \notin LiveIds(storage)

\* C21 nth_from_all enumerates the ids in use: for n < count() it returns
\* nth(n), the enabled id with n enabled ids below it; for count() <= n <
\* count_all() it returns the disabled id with n - count() disabled ids below
\* it; so over n in 0 .. count_all() - 1 every id in use is returned exactly
\* once, all enabled ids before all disabled ids.
C21_NthFromAllEnumerates ==
    LET nth_from_all(n) == Corpus_nth_from_all(storage, n)
        below(S, x) == Cardinality({ y \in S : y < x })
    IN  /\ \A n \in 0 .. Corpus_count(storage) - 1 :
              /\ nth_from_all(n).res = "Ok"
              /\ nth_from_all(n) = Corpus_nth(storage, n)
              /\ Unwrap(nth_from_all(n).ret) \in EnabledIds(storage)
              /\ below(EnabledIds(storage), Unwrap(nth_from_all(n).ret)) = n
        /\ \A n \in Corpus_count(storage) .. Corpus_count_all(storage) - 1 :
              /\ nth_from_all(n).res = "Ok"
              /\ Unwrap(nth_from_all(n).ret) \in DisabledIds(storage)
              /\ below(DisabledIds(storage), Unwrap(nth_from_all(n).ret))
                   = n - Corpus_count(storage)
        /\ { Unwrap(nth_from_all(n).ret) : n \in 0 .. Corpus_count_all(storage) - 1 }
             = LiveIds(storage)
        /\ \A m, n \in 0 .. Corpus_count_all(storage) - 1 :
              m # n => nth_from_all(m).ret # nth_from_all(n).ret

\* Two ids enabled and the lowest id disabled: nth_from_all gives 1, 2, 0.
C21_Witness ==
    /\ EnabledIds(storage) = {1, 2}
    /\ DisabledIds(storage) = {0}
    /\ Corpus_nth_from_all(storage, 0).ret = Some(1)
    /\ Corpus_nth_from_all(storage, 1).ret = Some(2)
    /\ Corpus_nth_from_all(storage, 2).ret = Some(0)

\* C22 Indexing past the end is a panic, not an error value: nth(n) panics
\* exactly when n >= count() and nth_from_all(n) exactly when n >= count_all();
\* no other corpus operation panics in any reachable state: the call made
\* last did not, and add, add_disabled, replace, remove, enable and disable
\* called now, with any id and testcase, return Ok or a tagged error.
C22_OnlyIndexingPanics ==
    /\ \A n \in 0 .. MaxIds + 1 :
          /\ (Corpus_nth(storage, n).res = "Panic") <=> (n >= Corpus_count(storage))
          /\ (Corpus_nth_from_all(storage, n).res = "Panic")
                <=> (n >= Corpus_count_all(storage))
    /\ call.res \in {"Ok", "KeyNotFound", "IllegalState"}
    /\ \A tc \in Testcases :
          /\ Corpus_add(storage, tc).res = "Ok"
          /\ Corpus_add_disabled(storage, tc).res = "Ok"
    /\ \A id \in Ids :
          /\ \A tc \in Testcases :
                Corpus_replace(storage, id, tc).res \in {"Ok", "KeyNotFound"}
          /\ Corpus_remove(storage, id).res \in {"Ok", "KeyNotFound"}
          /\ Corpus_disable(storage, id).res \in {"Ok", "KeyNotFound", "IllegalState"}
          /\ Corpus_enable(storage, id).res \in {"Ok", "KeyNotFound", "IllegalState"}
          /\ Corpus_get(storage, id).res \in {"Ok", "KeyNotFound"}
          /\ Corpus_get_from_all(storage, id).res \in {"Ok", "KeyNotFound"}

\* One id enabled and one disabled, after the tail of the enabled list was
\* taken out: nth(1) panics where nth_from_all(1) answers, nth_from_all(2)
\* panics.
C22_Witness ==
    /\ call.op = "disable"
    /\ call.res = "Ok"
    /\ Corpus_count(storage) = 1
    /\ Corpus_count_all(storage) = 2
    /\ Corpus_nth(storage, 0).res = "Ok"
    /\ Corpus_nth(storage, 1).res = "Panic"
    /\ Corpus_nth_from_all(storage, 1).res = "Ok"
    /\ Corpus_nth_from_all(storage, 2).res = "Panic"

\* C23 Looking up an id that is in neither partition never panics: for an id
\* never issued or removed, in every reachable state, get, get_from_all,
\* replace, remove, enable and disable return KeyNotFound and next and prev
\* return None, in both build variants.
C23_AbsentIdLookup ==
    \A id \in Ids :
        StatusOf(id) \in {"never", "removed"} =>
          /\ Corpus_get(storage, id).res = "KeyNotFound"
          /\ Corpus_get_from_all(storage, id).res = "KeyNotFound"
          /\ \A tc \in Testcases : Corpus_replace(storage, id, tc).res = "KeyNotFound"
          /\ Corpus_remove(storage, id).res = "KeyNotFound"
          /\ Corpus_enable(storage, id).res = "KeyNotFound"
          /\ Corpus_disable(storage, id).res = "KeyNotFound"
          /\ Corpus_next(storage, id) = None
          /\ Corpus_prev(storage, id) = None
          /\ Corpus_get_btreemap(storage_btreemap, id).res = "KeyNotFound"
          /\ \A tc \in Testcases :
                Corpus_replace_btreemap(storage_btreemap, id, tc).res = "KeyNotFound"
          /\ Corpus_remove_btreemap(storage_btreemap, id).res = "KeyNotFound"
          /\ Corpus_enable_btreemap(storage_btreemap, id).res = "KeyNotFound"
          /\ Corpus_disable_btreemap(storage_btreemap, id).res = "KeyNotFound"
          /\ Corpus_next_btreemap(storage_btreemap, id) = None
          /\ Corpus_prev_btreemap(storage_btreemap, id) = None

\* remove of an id that was removed before, from between two enabled ids; the
\* id after the last one issued was never issued.
C23_Witness ==
    /\ call.op = "remove"
    /\ call.id = Some(1)
    /\ call.was = "removed"
    /\ call.res = "KeyNotFound"
    /\ EnabledIds(storage) = {0, 2}
    /\ StatusOf(3) = "never"

\* C24 add(tc) always succeeds and appends to the enabled partition: it
\* returns the id progressive_id was, the counter is one more, count() is one
\* more, last() is the id returned, prev of it is what last() was, get of it
\* is tc, and the disabled partition is as before.
C24_AddAppends ==
    [][ (call'.op = "add") =>
          /\ call'.res = "Ok"
          /\ call'.ret = Some(storage.progressive_id)
          /\ storage'.progressive_id = storage.progressive_id + 1
          /\ Corpus_count(storage') = Corpus_count(storage) + 1
          /\ Corpus_last(storage') = call'.ret
          /\ Corpus_prev(storage', Unwrap(call'.ret)) = Corpus_last(storage)
          /\ Corpus_next(storage', Unwrap(call'.ret)) = None
          /\ IsSome(Corpus_last(storage)) =>
                Corpus_next(storage', Unwrap(Corpus_last(storage))) = call'.ret
          /\ Corpus_get(storage', Unwrap(call'.ret)).ret = Some(given'[Unwrap(call'.ret)])
          /\ storage'.disabled = storage.disabled
          /\ Corpus_count_disabled(storage') = Corpus_count_disabled(storage)
      ]_vars

\* add has put id 2 behind id 1 while id 0 is disabled.
C24_Witness ==
    /\ call.op = "add"
    /\ call.ret = Some(2)
    /\ Corpus_prev(storage, 2) = Some(1)
    /\ Corpus_last(storage) = Some(2)
    /\ DisabledIds(storage) = {0}

\* C25 add_disabled(tc) always succeeds and touches the disabled partition
\* and the id counter only: count_disabled() is one more; count(), the
\* enabled keys and the enabled first/last/next/prev order are as before; the
\* id returned is not found by get, is found by get_from_all with tc under
\* it, and enable of it succeeds.
C25_AddDisabledFrame ==
    [][ (call'.op = "add_disabled") =>
          LET id == Unwrap(call'.ret)
          IN  /\ call'.res = "Ok"
              /\ call'.ret = Some(storage.progressive_id)
              /\ storage'.progressive_id = storage.progressive_id + 1
              /\ Corpus_count_disabled(storage') = Corpus_count_disabled(storage) + 1
              /\ Corpus_count(storage') = Corpus_count(storage)
              /\ storage'.enabled.keys = storage.enabled.keys
              /\ Corpus_first(storage') = Corpus_first(storage)
              /\ Corpus_last(storage') = Corpus_last(storage)
              /\ \A x \in Ids :
                    /\ Corpus_next(storage', x) = Corpus_next(storage, x)
                    /\ Corpus_prev(storage', x) = Corpus_prev(storage, x)
              /\ storage'.enabled = storage.enabled
              /\ Corpus_get(storage', id).res = "KeyNotFound"
              /\ Corpus_get_from_all(storage', id).res = "Ok"
              /\ Corpus_get_from_all(storage', id).ret = Some(given'[id])
              /\ Corpus_enable(storage', id).res = "Ok"
              /\ Corpus_get(Corpus_enable(storage', id).st, id).ret = Some(given'[id])
      ]_vars

\* add_disabled has returned id 2 while ids 0 and 1 are enabled.
C25_Witness ==
    /\ call.op = "add_disabled"
    /\ call.ret = Some(2)
    /\ Traversal(storage.enabled) = << 0, 1 >>
    /\ DisabledIds(storage) = {2}

C27_NavigationEnabledOnly ==
    LET disabled(o) == IsSome(o) /\ \/ StatusOf(Unwrap(o)) = "disabled"
                                    \/ Unwrap(o) \in DisabledIds(storage)
    IN  /\ ~disabled(Corpus_first(storage))
        /\ ~disabled(Corpus_last(storage))
        /\ ~disabled(Corpus_first_btreemap(storage_btreemap))
        /\ ~disabled(Corpus_last_btreemap(storage_btreemap))
        /\ \A id \in Ids :
              /\ ~disabled(Corpus_next(storage, id))
              /\ ~disabled(Corpus_prev(storage, id))
              /\ ~disabled(Corpus_next_btreemap(storage_btreemap, id))
              /\ ~disabled(Corpus_prev_btreemap(storage_btreemap, id))
              /\ disabled(Some(id)) =>
                    /\ Corpus_next(storage, id) = None
                    /\ Corpus_prev(storage, id) = None
                    /\ Corpus_next_btreemap(storage_btreemap, id) = None
                    /\ Corpus_prev_btreemap(storage_btreemap, id) = None

\* Id 1 was disabled from between ids 0 and 2: next(0) steps over it.
C27_Witness ==
    /\ call.op = "disable"
    /\ call.res = "Ok"
    /\ call.id = Some(1)
    /\ StatusOf(1) = "disabled"
    /\ Corpus_next(storage, 0) = Some(2)
    /\ Corpus_prev(storage, 2) = Some(0)
    /\ Corpus_next(storage, 1) = None

\* C28 Borrow discipline: per id the testcase is a run-time checked cell of
\* one writer or many readers. testcase_mut(id) of an enabled id panics
\* exactly when another borrow of that id is alive, and testcase(id) exactly
\* when the exclusive borrow is; a call that panics grants nothing. Shared
\* borrows of one id add up, a borrow of one id neither depends on nor
\* changes the borrows of another, and both calls fail with KeyNotFound,
\* borrowing nothing, exactly for an id that is not enabled.
C28_BorrowDiscipline ==
    [][ (call'.op \in {"testcase", "testcase_mut"}) =>
          LET id == Unwrap(call'.id)
              flag == FlagOf(id)
              flag1 == IF id \in DOMAIN borrow' THEN borrow'[id] ELSE 0
              enabled == call'.was = "enabled"
          IN  /\ (call'.res = "KeyNotFound") <=> ~enabled
              /\ (call'.op = "testcase_mut" /\ enabled) =>
                    /\ (call'.res = "Panic") <=> (flag # 0)
                    /\ (call'.res = "Ok") <=> (flag = 0)
                    /\ (call'.res = "Ok") => flag1 = 0 - 1
              /\ (call'.op = "testcase" /\ enabled) =>
                    /\ (call'.res = "Panic") <=> (flag < 0)
                    /\ (call'.res = "Ok") <=> (flag >= 0)
                    /\ (call'.res = "Ok") => flag1 = flag + 1
              /\ (call'.res = "Ok") => call'.ret = Some(given[id])
              /\ (call'.res # "Ok") => borrow' = borrow
              /\ \A x \in Ids \ {id} :
                    (x \in DOMAIN borrow' <=> x \in DOMAIN borrow)
                      /\ (x \in DOMAIN borrow => borrow'[x] = borrow[x])
              /\ storage' = storage
      ]_vars

\* testcase_mut of an id with two shared borrows alive has panicked, while
\* the exclusive borrow of another id is alive.
C28_Witness ==
    /\ call.op = "testcase_mut"
    /\ call.res = "Panic"
    /\ FlagOf(Unwrap(call.id)) = 2
    /\ \E x \in Ids : FlagOf(x) = 0 - 1

\* C29 disable and enable move a testcase and change neither its id nor its
\* payload: after a successful disable(id) or enable(id), get_from_all(id)
\* returns the testcase stored under id before, the one the caller handed
\* in, and every other id keeps its testcase and its partition. disable(id)
\* followed by enable(id) of an enabled id gives back the enabled id set, the
\* disabled id set, the counts, the keys and the payloads it started from.
C29_MoveKeepsTestcase ==
    [][ /\ (call'.op \in {"disable", "enable"} /\ call'.res = "Ok") =>
              LET id == Unwrap(call'.id)
              IN  /\ Corpus_get_from_all(storage', id).res = "Ok"
                  /\ Corpus_get_from_all(storage', id) = Corpus_get_from_all(storage, id)
                  /\ Corpus_get_from_all(storage', id).ret = Some(given[id])
                  /\ LiveIds(storage') = LiveIds(storage)
                  /\ \A x \in Ids \ {id} :
                        /\ Corpus_get_from_all(storage', x) = Corpus_get_from_all(storage, x)
                        /\ Corpus_get(storage', x) = Corpus_get(storage, x)
        /\ \A id \in EnabledIds(storage') :
              LET d == Corpus_disable(storage', id)
                  e == Corpus_enable(d.st, id)
              IN  /\ d.res = "Ok"
                  /\ e.res = "Ok"
                  /\ EnabledIds(e.st) = EnabledIds(storage')
                  /\ DisabledIds(e.st) = DisabledIds(storage')
                  /\ Corpus_count(e.st) = Corpus_count(storage')
                  /\ Corpus_count_disabled(e.st) = Corpus_count_disabled(storage')
                  /\ Corpus_count_all(e.st) = Corpus_count_all(storage')
                  /\ e.st.enabled.keys = storage'.enabled.keys
                  /\ e.st.disabled = storage'.disabled
                  /\ e.st.progressive_id = storage'.progressive_id
                  /\ \A x \in Ids :
                        /\ Corpus_get(e.st, x) = Corpus_get(storage', x)
                        /\ Corpus_get_from_all(e.st, x) = Corpus_get_from_all(storage', x)
      ]_vars

\* enable(0) has put id 0 back, behind id 1 now and with the testcase it had,
\* which is not the one of id 1.
C29_Witness ==
    /\ call.op = "enable"
    /\ call.res = "Ok"
    /\ call.id = Some(0)
    /\ Traversal(storage.enabled) = << 1, 0 >>
    /\ Corpus_get(storage, 0).ret = Some(Testcase(<< 2, 3, 4 >>))
    /\ Corpus_get(storage, 1).ret = Some(Testcase(<< 1, 2, 3 >>))

\* C30 State unchanged on error: whenever replace, remove, enable or disable
\* returns KeyNotFound, the corpus is exactly as before the call: the maps,
\* keys, prev/next links, first_id and last_id of both partitions,
\* progressive_id and current; in both build variants.
C30_ErrorLeavesState ==
    [][ (/\ call'.op \in {"replace", "remove", "enable", "disable"}
         /\ call'.res = "KeyNotFound") =>
          /\ storage'.enabled.map = storage.enabled.map
          /\ storage'.enabled.keys = storage.enabled.keys
          /\ storage'.enabled.first_id = storage.enabled.first_id
          /\ storage'.enabled.last_id = storage.enabled.last_id
          /\ storage'.disabled.map = storage.disabled.map
          /\ storage'.disabled.keys = storage.disabled.keys
          /\ storage'.disabled.first_id = storage.disabled.first_id
          /\ storage'.disabled.last_id = storage.disabled.last_id
          /\ storage'.progressive_id = storage.progressive_id
          /\ current' = current
          /\ storage_btreemap' = storage_btreemap
      ]_vars

\* disable of an id that is disabled already has failed, with another id
\* enabled and the cursor on it.
C30_Witness ==
    /\ call.op = "disable"
    /\ call.was = "disabled"
    /\ call.res = "KeyNotFound"
    /\ IsSome(current)
    /\ current # call.id
    /\ Unwrap(current) \in EnabledIds(storage)
    /\ Unwrap(call.id) \in DisabledIds(storage)

\* C31 No testcase is lost by a move: through the public operations the
\* reinsertion of disable/enable never returns IllegalState, so a disable or
\* enable that took a testcase out of one partition has put it into the
\* other; the set of ids in use, enabled and disabled together, changes only
\* with add, add_disabled and remove. In both build variants.
C31_NoTestcaseLost ==
    [][ LET live_btreemap(st) == (DOMAIN st.enabled.map) \cup (DOMAIN st.disabled.map)
        IN  /\ call'.res # "IllegalState"
            /\ (call'.op \in {"disable", "enable"}) =>
                  /\ LiveIds(storage') = LiveIds(storage)
                  /\ live_btreemap(storage_btreemap') = live_btreemap(storage_btreemap)
                  /\ Corpus_count_all(storage') = Corpus_count_all(storage)
                  /\ (storage' # storage) => call'.res = "Ok"
            /\ (call'.op = "disable" /\ call'.res = "Ok") =>
                  /\ Unwrap(call'.id) \in EnabledIds(storage)
                  /\ Unwrap(call'.id) \in DisabledIds(storage')
            /\ (call'.op = "enable" /\ call'.res = "Ok") =>
                  /\ Unwrap(call'.id) \in DisabledIds(storage)
                  /\ Unwrap(call'.id) \in EnabledIds(storage')
            /\ (LiveIds(storage') # LiveIds(storage)
                  \/ live_btreemap(storage_btreemap') # live_btreemap(storage_btreemap)) =>
                  call'.op \in {"add", "add_disabled", "remove"}
      ]_vars

\* disable has moved the id issued last, the one right below the counter.
C31_Witness ==
    /\ call.op = "disable"
    /\ call.res = "Ok"
    /\ call.id = Some(storage.progressive_id - 1)
    /\ Unwrap(call.id) \in DisabledIds(storage)
    /\ Corpus_count(storage) > 0

\* C32 Traversal is complete and ends (linked variant): in every reachable
\* state next from first() visits every enabled id exactly once and comes to
\* None after exactly count() steps; prev from last() visits the same ids in
\* the reverse order; and next(a) = Some(b) exactly when prev(b) = Some(a),
\* for all enabled a and b.
C32_TraversalComplete ==
    LET t == Traversal(storage.enabled)
        tb == TraversalBack(storage.enabled)
    IN  /\ Len(t) = Corpus_count(storage)
        /\ Range(t) = EnabledIds(storage)
        /\ \A i, j \in 1 .. Len(t) : i # j => t[i] # t[j]
        /\ tb = Reverse(t)
        /\ \A a, b \in EnabledIds(storage) :
              (Corpus_next(storage, a) = Some(b)) <=> (Corpus_prev(storage, b) = Some(a))

\* Three ids enabled, walked 0, 2, 1 forwards and 1, 2, 0 backwards.
C32_Witness ==
    /\ Traversal(storage.enabled) = << 0, 2, 1 >>
    /\ TraversalBack(storage.enabled) = << 1, 2, 0 >>
    /\ Corpus_count(storage) = 3
    /\ call.op = "enable"

C34_CounterCountsInsertions ==
    [][ /\ (call.op = "new") =>
              Corpus_peek_free_id(storage) = 0 /\ storage_btreemap.progressive_id = 0
        /\ (call'.op \in {"add", "add_disabled"}) =>
              /\ Corpus_peek_free_id(storage') = Corpus_peek_free_id(storage) + 1
              /\ storage_btreemap'.progressive_id = storage_btreemap.progressive_id + 1
        /\ (call'.op \notin {"add", "add_disabled"}) =>
              /\ Corpus_peek_free_id(storage') = Corpus_peek_free_id(storage)
              /\ storage_btreemap'.progressive_id = storage_btreemap.progressive_id
        /\ Corpus_peek_free_id(storage') = Cardinality(DOMAIN status')
        /\ storage_btreemap'.progressive_id = Cardinality(DOMAIN status')
      ]_vars

\* remove has taken out the id issued last: the counter stays one above it.
C34_Witness ==
    /\ call.op = "remove"
    /\ call.res = "Ok"
    /\ call.id = Some(Corpus_peek_free_id(storage) - 1)
    /\ Corpus_peek_free_id(storage) = 2
    /\ Corpus_count_all(storage) = 1

\* What the hook at place i returned, or would return, to the *_all call last
\* made.
HookReturned(i) ==
    CASE hook_chain.op = "pre_exec_all"  -> hook_chain.hooks[i].pre_exec
      [] hook_chain.op = "on_fire_all"   -> hook_chain.hooks[i].on_fire
      [] hook_chain.op = "post_exec_all" -> hook_chain.hooks[i].post_exec

IsOkTrue(r) == r.tag = "Ok" /\ r.val = << TRUE >>

\* C35: pre_exec_all and post_exec_all return Ok(true) exactly when every
\* hook of the tuple returns Ok(true); when no hook returns an error, every
\* hook is invoked exactly once, in tuple order, also after an earlier hook
\* returned false; the empty tuple returns Ok(true).
C35_HookChainResult ==
    hook_chain.op \in { "pre_exec_all", "post_exec_all" } =>
        LET n == Len(hook_chain.hooks)
        IN  /\ IsOkTrue(hook_chain.res) <=> \A i \in 1 .. n : IsOkTrue(HookReturned(i))
            /\ (\A i \in 1 .. n : ~IsErr(HookReturned(i))) =>
                   /\ hook_chain.invoked = [i \in 1 .. n |-> i]
                   /\ hook_chain.res.tag = "Ok"
            /\ n = 0 => IsOkTrue(hook_chain.res)

\* C35 witness: pre_exec_all on a tuple of two hooks, the first of which
\* returned false and the second true: both were invoked, in order, and the
\* call returned Ok(false).
C35_Witness ==
    /\ hook_chain.op = "pre_exec_all"
    /\ Len(hook_chain.hooks) = 2
    /\ hook_chain.hooks[1].pre_exec = Ok(FALSE)
    /\ hook_chain.hooks[2].pre_exec = Ok(TRUE)
    /\ hook_chain.invoked = << 1, 2 >>
    /\ hook_chain.res = Ok(FALSE)

\* C36: in pre_exec_all, on_fire_all and post_exec_all the first hook, in
\* tuple order, that returns an error stops the chain: the hooks before it
\* and the hook itself have run on the state, no later hook has, and the
\* call returns that hook's error.
C36_HookChainErrors ==
    hook_chain.op \in { "pre_exec_all", "on_fire_all", "post_exec_all" } =>
        \A k \in 1 .. Len(hook_chain.hooks) :
            (/\ IsErr(HookReturned(k))
             /\ \A i \in 1 .. k - 1 : ~IsErr(HookReturned(i))) =>
                /\ hook_chain.invoked = [i \in 1 .. k |-> i]
                /\ hook_chain.res = HookReturned(k)

\* C36 witness: on_fire_all on a tuple of two hooks that both fail: only the
\* first was invoked and its error came back.
C36_Witness ==
    /\ hook_chain.op = "on_fire_all"
    /\ Len(hook_chain.hooks) = 2
    /\ IsErr(hook_chain.hooks[1].on_fire)
    /\ IsErr(hook_chain.hooks[2].on_fire)
    /\ hook_chain.invoked = << 1 >>
    /\ hook_chain.res = Err(1)

\* The bytes of the string p points to, without the NUL.
StrOf(p) == SubSeq(Unwrap(p), 1, Len(Unwrap(p)) - 1)

\* a comes before b in the lexicographic order of unsigned bytes: they agree
\* on the first k bytes, and there a ends and b goes on, or a has the smaller
\* byte.
LexLess(a, b) ==
    \E k \in 0 .. Len(a) :
        /\ k <= Len(b)
        /\ \A i \in 1 .. k : a[i] = b[i]
        /\ \/ k = Len(a) /\ k < Len(b)
           \/ k < Len(a) /\ k < Len(b) /\ a[k + 1] < b[k + 1]

StrictlyAscending(v) == \A i \in 1 .. Len(v) - 1 : v[i] < v[i + 1]

\* C38: insert_key of an id already in keys and remove_key of an id not in
\* keys leave keys as it was; after either call on a strictly ascending keys
\* the vector is strictly ascending; a second call of the same kind with the
\* same id changes nothing; and insert_key of an id that was not in keys
\* followed by remove_key of it gives back the vector from before.
C38_KeysIdempotentOrdered ==
    LET id     == keys_call.id
        before == keys_call.before
        keys   == keys_call.keys
    IN  /\ keys_call.op = "insert_key" =>
               /\ id \in Range(before) => keys = before
               /\ StrictlyAscending(before) => StrictlyAscending(keys)
               /\ insert_key(keys, id) = keys
               /\ id \notin Range(before) => remove_key(keys, id) = before
        /\ keys_call.op = "remove_key" =>
               /\ id \notin Range(before) => keys = before
               /\ StrictlyAscending(before) => StrictlyAscending(keys)
               /\ remove_key(keys, id) = keys

\* C38 witness: insert_key of the last of two ids that keys already holds.
C38_Witness ==
    /\ keys_call.op = "insert_key"
    /\ keys_call.before = << 0, 2 >>
    /\ keys_call.id = 2
    /\ keys_call.keys = << 0, 2 >>

====
